---------------------------- MODULE Spec2Model ----------------------------
(***************************************************************************)
(* State-machine model of the ingestion-and-hierarchy engine of pwe:       *)
(*   back/app/db/base.py  init_db = init_schema ; fill_db ; place_db       *)
(* and of the read handlers of back/app/routes/filter.py:                  *)
(*   get_data, filter_data and get_dates                                   *)
(* One process start (init_db) opens one connection, runs fill_db day by   *)
(* day, then place_db triple by triple.  A connection that is closed       *)
(* without commit (the process is killed, or an exception leaves the       *)
(* `async with connect(...)` block) loses its uncommitted rows.            *)
(***************************************************************************)
EXTENDS Integers, Sequences, FiniteSets, TLC

VARIABLES
    files,           \* the snapshot directory: file name -> None | Some(rows)
    end_date,        \* fill_db's end_date (the model shortens the range)
    data_point,      \* table data_point as the open connection sees it
    dp_committed,    \* number of data_point rows that are durable
    continent,       \* table continent: rows [id, name, lat, lon]
    country,         \* table country: rows [id, name, parent, lat, lon]
    state,           \* table state
    county,          \* table county
    sqlite_sequence, \* the AUTOINCREMENT counters of the four tables
    hier_committed,  \* durable row counts of the four hierarchy tables
    seq_committed,   \* durable values of the four AUTOINCREMENT counters
    pc,              \* where the process is: idle | fill_loop | ...
    current,         \* fill_db: current
    existing_dates,  \* fill_db: existing_dates
    batch_size,      \* fill_db: batch_size
    total_inserted,  \* fill_db: total_inserted
    rows,            \* place_db: the distinct triples not yet iterated
    country_cache,   \* place_db: country_cache
    outcome,         \* how the last process start ended: none|ok|killed|raised
    changed,         \* a snapshot file has been replaced since Init
    rows_before,     \* history: data_point when the running fill_db began
    prev_done,       \* history: None | Some(store after the last complete run)
    dup_seen,        \* history: some file held two rows of one place
    request,         \* the request a handler of routes/filter.py serves, or None
    scope,           \* get_data: start_date and end_date after line 120, or None
    response,        \* what the handler returned for the request, or None
    pre_pc,          \* where preprocess_data is: none | loop | done
    pre_date,        \* preprocess_data: date
    all_data,        \* preprocess_data: all_data
    prev_day_map,    \* preprocess_data: prev_day_map (one row per key)
    data,            \* routes/data.py: the module-level data, or None
    filtered,        \* the last GET /data/{key}/{target} and its result
    covid_data,      \* main.py: the CovidData rows as the open session sees them
    covid_committed  \* main.py: number of CovidData rows that are durable

vars == <<files, end_date, data_point, dp_committed, continent, country,
          state, county, sqlite_sequence, hier_committed, seq_committed, pc,
          current, existing_dates,
          batch_size, total_inserted, rows, country_cache, outcome,
          changed, rows_before, prev_done, dup_seen, request, scope, response,
          pre_pc, pre_date, all_data, prev_day_map, data, filtered,
          covid_data, covid_committed>>

----------------------------------------------------------------------------
(* Bounds of the model *)

\* last day offset of the short ingestion range (days 0..SmallEnd)
SmallEnd == 1
\* last day offset of the long ingestion range used for batch commits
LongEnd == 61

(* Program constants *)

\* fill_db: `if batch_size % 30 == 0`
BatchDays == 30

----------------------------------------------------------------------------
(* Python values *)

\* Python None, and a value that is present
None == <<>>
Some(x) == <<x>>

\* truthiness of an optional string: None and "" are falsy
Truthy(v) == v # None /\ v # Some("")

\* Python `a or b` on optional strings
Or(a, b) == IF Truthy(a) THEN a ELSE b

----------------------------------------------------------------------------
(* Dates: datetime.date as <<year, month, day>> *)

start_date == <<2021, 1, 1>>

IsLeap(y) == (y % 4 = 0 /\ y % 100 # 0) \/ y % 400 = 0

DaysInMonth(y, m) ==
    IF m = 2 THEN (IF IsLeap(y) THEN 29 ELSE 28)
    ELSE IF m \in {4, 6, 9, 11} THEN 30 ELSE 31

\* d + timedelta(days=1)
NextDay(d) ==
    IF d[3] < DaysInMonth(d[1], d[2]) THEN <<d[1], d[2], d[3] + 1>>
    ELSE IF d[2] < 12 THEN <<d[1], d[2] + 1, 1>>
    ELSE <<d[1] + 1, 1, 1>>

RECURSIVE DatePlus(_, _)
\* d + timedelta(days=n)
DatePlus(d, n) ==
    IF d[3] + n <= DaysInMonth(d[1], d[2]) THEN <<d[1], d[2], d[3] + n>>
    ELSE DatePlus(NextDay(<<d[1], d[2], DaysInMonth(d[1], d[2])>>),
                  n - (DaysInMonth(d[1], d[2]) - d[3]) - 1)

\* date comparison a <= b
DateLe(a, b) ==
    \/ a[1] < b[1]
    \/ a[1] = b[1] /\ a[2] < b[2]
    \/ a[1] = b[1] /\ a[2] = b[2] /\ a[3] <= b[3]

\* two decimal digits of n
Digits2(n) == <<n \div 10, n % 10>>
Digits4(n) == <<n \div 1000, (n \div 100) % 10, (n \div 10) % 10, n % 10>>

\* str(current): 'YYYY-MM-DD' as its digits (the dashes are left out)
IsoFormat(d) == Digits4(d[1]) \o Digits2(d[2]) \o Digits2(d[3])

\* f"{current:%m-%d-%Y}.csv": the file name as its digits
FileName(d) == Digits2(d[2]) \o Digits2(d[3]) \o Digits4(d[1])

\* the days of a range of n+1 days from start_date
RangeDays(n) == {DatePlus(start_date, i) : i \in 0..n}

----------------------------------------------------------------------------
(* The Snapshot Reader: one csv.DictReader row -> one data_point tuple *)

\* int("...") on the literals the model's files use; anything else raises
IntLiterals == {"0", "5", "7", "100", "150"}
ParseInt(s) ==
    CASE s = "0" -> 0 [] s = "5" -> 5 [] s = "7" -> 7
      [] s = "100" -> 100 [] s = "150" -> 150

\* int(v or 0)
IntOrZero(v) == IF Truthy(v) THEN ParseInt(v[1]) ELSE 0

\* int(v or 0) if v not in (None, "") else None
IntOrNone(v) == IF v \notin {None, Some("")} THEN Some(ParseInt(v[1])) ELSE None

\* float(v or 0): lat and lon are converted without the None branch
FloatOrZero(v) == IF Truthy(v) THEN Some(ParseInt(v[1])) ELSE Some(0)

\* the numeric columns fill_db converts
NumericColumns ==
    {"Confirmed", "Deaths", "Active", "Incident_Rate",
     "Case_Fatality_Ratio", "Lat", "Long_"}

\* int()/float() raises ValueError on this row
RaisesValueError(r) ==
    \E c \in NumericColumns : Truthy(r[c]) /\ r[c][1] \notin IntLiterals

\* the tuple fill_db builds from DictReader row r on day d
ToTuple(d, r) ==
    [date |-> IsoFormat(d),
     us_county_id |-> Or(r.FIPS, None),
     us_county_name |-> Or(r.Admin2, None),
     province |-> Or(Or(r.Province_State, r.Province_State_old), None),
     country |-> Or(r.Country_Region, r.Country_Region_old),
     confirmed |-> IntOrZero(r.Confirmed),
     deaths |-> IntOrZero(r.Deaths),
     active |-> IntOrNone(r.Active),
     incident_rate |-> IntOrNone(r.Incident_Rate),
     case_fatality_ratio |-> IntOrNone(r.Case_Fatality_Ratio),
     lat |-> FloatOrZero(r.Lat),
     lon |-> FloatOrZero(r.Long_)]

\* rows = [ ... for r in reader ]
ReadRows(d, f) == [i \in 1..Len(f) |-> ToTuple(d, f[i])]

\* data_point.country is NOT NULL: executemany raises IntegrityError
RaisesIntegrityError(rs) == \E i \in 1..Len(rs) : rs[i].country = None


----------------------------------------------------------------------------
(* The transactional store *)

\* the first n elements of sequence s
Prefix(s, n) == SubSeq(s, 1, n)

\* s is a prefix of t
IsPrefix(s, t) == Len(s) <= Len(t) /\ Prefix(t, Len(s)) = s

\* row counts of the four hierarchy tables
HierLens == <<Len(continent), Len(country), Len(state), Len(county)>>

\* the connection is closed without commit: uncommitted rows are lost
Rollback ==
    /\ data_point' = Prefix(data_point, dp_committed)
    /\ continent' = Prefix(continent, hier_committed[1])
    /\ country' = Prefix(country, hier_committed[2])
    /\ state' = Prefix(state, hier_committed[3])
    /\ county' = Prefix(county, hier_committed[4])
    /\ sqlite_sequence' = seq_committed
    /\ UNCHANGED <<dp_committed, hier_committed, seq_committed>>

\* mutant: existing_dates holds date objects, which never equal str(current)
DistinctDates_asDate(dp) == {<<dp[i].date>> : i \in 1..Len(dp)}

\* SELECT DISTINCT date FROM data_point
DistinctDates(dp) == {dp[i].date : i \in 1..Len(dp)}

\* mutant: the load replaces the table content instead of appending to it
Executemany_replace(dp, rs) == rs

\* conn.executemany("INSERT INTO data_point ... VALUES (...)", rs)
Executemany(dp, rs) == dp \o rs

\* csv_path.exists()
Exists(d) == files[FileName(d)] # None

\* the DictReader rows of the file of day d
Reader(d) == files[FileName(d)][1]

fill_locals == <<current, existing_dates, batch_size, total_inserted>>
place_locals == <<rows, country_cache>>

\* the process has ended: the locals of fill_db and place_db are gone,
\* and with them the record of what the run began with
DropLocals ==
    /\ current' = start_date
    /\ existing_dates' = {}
    /\ batch_size' = 0
    /\ total_inserted' = 0
    /\ rows' = {}
    /\ country_cache' = {}
    /\ rows_before' = <<>>

hier == <<continent, country, state, county, sqlite_sequence, hier_committed,
          seq_committed>>
pre_vars == <<pre_pc, pre_date, all_data, prev_day_map, data, filtered>>
main_vars == <<covid_data, covid_committed>>
world == <<files, end_date, dup_seen, request, scope, response, pre_vars>>
env == <<world, main_vars>>

----------------------------------------------------------------------------
(* init_db / fill_db *)

\* `if batch_size % 30 == 0` after `batch_size += 1`
BatchFull(n) == n % BatchDays = 0

\* init_db opens a connection and enters fill_db: lines 94-104
StartFill ==
    /\ pc = "idle"
    /\ existing_dates' = DistinctDates(data_point)
    /\ current' = start_date
    /\ batch_size' = 0
    /\ total_inserted' = 0
    /\ rows_before' = data_point
    /\ outcome' = "none"
    /\ pc' = "fill_loop"
    /\ UNCHANGED <<env, data_point, dp_committed, hier, place_locals, changed,
                   prev_done>>

\* mutant: the branch for a day already present stays on that day
SkipExisting_sameDay ==
    /\ pc = "fill_loop"
    /\ DateLe(current, end_date)
    /\ IsoFormat(current) \in existing_dates
    /\ current' = current
    /\ UNCHANGED <<env, data_point, dp_committed, hier, pc, existing_dates,
                   batch_size, total_inserted, place_locals, outcome, changed,
                   rows_before, prev_done>>

\* `if str(current) in existing_dates: current += 1 day; continue`
SkipExisting ==
    /\ pc = "fill_loop"
    /\ DateLe(current, end_date)
    /\ IsoFormat(current) \in existing_dates
    /\ current' = NextDay(current)
    /\ UNCHANGED <<env, data_point, dp_committed, hier, pc, existing_dates,
                   batch_size, total_inserted, place_locals, outcome, changed,
                   rows_before, prev_done>>

\* mutant: a day without a file counts as a processed day of the batch
SkipMissing_counted ==
    /\ pc = "fill_loop"
    /\ DateLe(current, end_date)
    /\ IsoFormat(current) \notin existing_dates
    /\ ~Exists(current)
    /\ current' = NextDay(current)
    /\ batch_size' = batch_size + 1
    /\ UNCHANGED <<env, data_point, dp_committed, hier, pc, existing_dates,
                   total_inserted, place_locals, outcome, changed,
                   rows_before, prev_done>>

\* `if not csv_path.exists(): current += 1 day; continue`
SkipMissing ==
    /\ pc = "fill_loop"
    /\ DateLe(current, end_date)
    /\ IsoFormat(current) \notin existing_dates
    /\ ~Exists(current)
    /\ current' = NextDay(current)
    /\ UNCHANGED <<env, data_point, dp_committed, hier, pc, existing_dates,
                   batch_size, total_inserted, place_locals, outcome, changed,
                   rows_before, prev_done>>

\* the day's file is read and bulk-inserted; batch_size counts the day
InsertDay ==
    /\ pc = "fill_loop"
    /\ DateLe(current, end_date)
    /\ IsoFormat(current) \notin existing_dates
    /\ Exists(current)
    /\ ~\E i \in 1..Len(Reader(current)) : RaisesValueError(Reader(current)[i])
    /\ LET rs == ReadRows(current, Reader(current)) IN
        /\ ~RaisesIntegrityError(rs)
        /\ data_point' = Executemany(data_point, rs)
        /\ total_inserted' = total_inserted + Len(rs)
        /\ batch_size' = batch_size + 1
        /\ IF BatchFull(batch_size + 1)
           THEN pc' = "fill_commit" /\ current' = current
           ELSE pc' = "fill_loop" /\ current' = NextDay(current)
    /\ UNCHANGED <<env, dp_committed, hier, existing_dates, place_locals,
                   outcome, changed, rows_before, prev_done>>

\* int()/float() or the NOT NULL constraint raises: the exception leaves
\* init_db, the connection closes and the open transaction is lost
InsertRaises ==
    /\ pc = "fill_loop"
    /\ DateLe(current, end_date)
    /\ IsoFormat(current) \notin existing_dates
    /\ Exists(current)
    /\ IF \E i \in 1..Len(Reader(current)) : RaisesValueError(Reader(current)[i])
       THEN TRUE
       ELSE RaisesIntegrityError(ReadRows(current, Reader(current)))
    /\ Rollback
    /\ DropLocals
    /\ pc' = "idle"
    /\ outcome' = "raised"
    /\ UNCHANGED <<env, changed, prev_done>>

\* `if batch_size % 30 == 0: await conn.commit()` then current += 1 day
BatchCommit ==
    /\ pc = "fill_commit"
    /\ dp_committed' = Len(data_point)
    /\ current' = NextDay(current)
    /\ pc' = "fill_loop"
    /\ UNCHANGED <<env, data_point, hier, existing_dates, batch_size,
                   total_inserted, place_locals, outcome, changed,
                   rows_before, prev_done>>

\* the loop ends: the final `await conn.commit()`; fill_db returns
FinalCommit ==
    /\ pc = "fill_loop"
    /\ ~DateLe(current, end_date)
    /\ dp_committed' = Len(data_point)
    /\ pc' = "fill_done"
    /\ UNCHANGED <<env, data_point, hier, fill_locals, place_locals, outcome,
                   changed, rows_before, prev_done>>

----------------------------------------------------------------------------
(* place_db *)

\* CountryInfo(country): the region of a country the library knows, and
\* "Unknown" when the lookup raises (lines 202-210)
Region(c) ==
    CASE c \in {"US", "Uruguay"} -> "Americas"
      [] c = "France" -> "Europe"
      [] c \in {"India", "Pakistan"} -> "Asia"
      [] OTHER -> "Unknown"

\* CountryInfo(country).get_location_info().latlng() of the countries the
\* library knows, and (0, 0) when the lookup raises (lines 202-210)
LatLng(c) ==
    CASE c = "US" -> <<38, -97>>
      [] c = "Uruguay" -> <<-33, -56>>
      [] c = "France" -> <<46, 2>>
      [] c = "India" -> <<20, 77>>
      [] c = "Pakistan" -> <<30, 70>>
      [] OTHER -> <<0, 0>>

\* SELECT DISTINCT country, province, us_county_name FROM data_point
DistinctTriples(dp) ==
    {<<dp[i].country, dp[i].province, dp[i].us_county_name>> : i \in 1..Len(dp)}

\* the greatest value an AUTOINCREMENT counter takes in the model
MaxSeq == 8

\* the four tables in the order of sqlite_sequence
ContinentT == 1
CountryT == 2
StateT == 3
CountyT == 4

\* mutant: the name column is not UNIQUE (as in the ORM models), so every
\* INSERT OR IGNORE inserts
InsertOrIgnore_noUnique(tbl, row, n) == Append(tbl, [id |-> n + 1] @@ row)

\* INSERT OR IGNORE INTO <table> (name, ...) on a table whose counter is at
\* n: name is UNIQUE in init_schema; the id is INTEGER PRIMARY KEY
\* AUTOINCREMENT, and SQLite takes the next value of the counter for the
\* statement before it finds the name present, so a row that is inserted
\* gets n + 1 whether the statements before it inserted or not
InsertOrIgnore(tbl, row, n) ==
    IF \E i \in 1..Len(tbl) : tbl[i].name = row.name THEN tbl
    ELSE Append(tbl, [id |-> n + 1] @@ row)

\* mutant: the id is taken from cursor.lastrowid, which after an ignored
\* insert is still the rowid of the last row inserted on the connection
SelectId_lastrowid(tbl, name) ==
    IF tbl[Len(tbl)].name = name THEN tbl[Len(tbl)].id ELSE Len(data_point)

\* SELECT id FROM <table> WHERE name = ?
SelectId(tbl, name) ==
    tbl[CHOOSE i \in 1..Len(tbl) : tbl[i].name = name].id

\* the row of a table that has the id
RowById(tbl, id) == tbl[CHOOSE i \in 1..Len(tbl) : tbl[i].id = id]

\* the ids of a table
Ids(tbl) == {tbl[i].id : i \in 1..Len(tbl)}

\* mutant: the row is skipped only when country is None
Skips_onlyNone(t) == t[1] = None

\* `if not country: continue`
Skips(t) == ~Truthy(t[1])

\* mutant: the province is used as read
NormProvince_asRead(p) == p

\* `province = None if province == "Unknown" else province`
NormProvince(p) == IF p = Some("Unknown") THEN None ELSE p

\* country_cache after `if country not in country_cache: ...`
CacheWith(cache, c) ==
    IF \E e \in cache : e[1] = c THEN cache
    ELSE cache \cup {<<c, Region(c), LatLng(c)>>}

\* country_cache[country]["continent"]
CacheGet(cache, c) == (CHOOSE e \in cache : e[1] = c)[2]

\* country_cache[country]["lat"], country_cache[country]["lon"]
CacheLatLng(cache, c) == (CHOOSE e \in cache : e[1] = c)[3]

\* SELECT lat, lon FROM data_point WHERE <col> = ? AND lat IS NOT NULL AND
\* lon IS NOT NULL LIMIT 1, and (0, 0) when no row is found
FirstLatLon(dp, col, v) ==
    LET I == {i \in 1..Len(dp) :
                dp[i][col] = Some(v) /\ dp[i].lat # None /\ dp[i].lon # None}
    IN  IF I = {} THEN <<Some(0), Some(0)>>
        ELSE LET i == CHOOSE x \in I : \A y \in I : x <= y
             IN  <<dp[i].lat, dp[i].lon>>

\* the country row place_db offers for (country, continent_id)
CountryRow(name, continent_id, latlng) ==
    [name |-> name, parent |-> continent_id, lat |-> Some(latlng[1]),
     lon |-> Some(latlng[2])]

\* the state row place_db offers for (province, country_id)
StateRow(name, country_id) ==
    [name |-> name, parent |-> country_id,
     lat |-> FirstLatLon(data_point, "province", name)[1],
     lon |-> FirstLatLon(data_point, "province", name)[2]]

\* the county row place_db offers for (county, state_id)
CountyRow(name, state_id) ==
    [name |-> name, parent |-> state_id,
     lat |-> FirstLatLon(data_point, "us_county_name", name)[1],
     lon |-> FirstLatLon(data_point, "us_county_name", name)[2]]

\* mutant: the county step is taken for every country
TakesCounty_anyCountry(ctry, cnty) == Truthy(cnty)

\* the county step is taken `if county and country == "US"`
TakesCounty(ctry, cnty) == Truthy(cnty) /\ ctry = Some("US")

\* place_db reads the distinct triples: lines 184-192
PlaceStart ==
    /\ pc = "fill_done"
    /\ rows' = DistinctTriples(data_point)
    /\ country_cache' = {}
    /\ prev_done' = Some(data_point)
    /\ pc' = "place_loop"
    /\ UNCHANGED <<env, data_point, dp_committed, hier, fill_locals, outcome,
                   changed, rows_before>>

\* one iteration of `for country, province, county in rows` (lines 194-293);
\* the order in which SQLite yields the distinct triples is not specified
PlaceRow(t) ==
    /\ pc = "place_loop"
    /\ t \in rows
    /\ rows' = rows \ {t}
    /\ IF Skips(t)
       THEN UNCHANGED <<continent, country, state, county, sqlite_sequence,
                        country_cache>>
       ELSE LET ctry == t[1][1]
                province == NormProvince(t[2])
                cache == CacheWith(country_cache, ctry)
                region == CacheGet(cache, ctry)
                continent1 == InsertOrIgnore(continent,
                                  [name |-> region, lat |-> None,
                                   lon |-> None],
                                  sqlite_sequence[ContinentT])
                continent_id == SelectId(continent1, region)
                country1 == InsertOrIgnore(country,
                               CountryRow(ctry, continent_id,
                                          CacheLatLng(cache, ctry)),
                               sqlite_sequence[CountryT])
                country_id == SelectId(country1, ctry)
                state1 == InsertOrIgnore(state,
                                         StateRow(province[1], country_id),
                                         sqlite_sequence[StateT])
                state_id == SelectId(state1, province[1])
                toState == Truthy(province)
                toCounty == toState /\ TakesCounty(t[1], t[3])
            IN  /\ country_cache' = cache
                /\ continent' = continent1
                /\ country' = country1
                /\ state' = IF toState THEN state1 ELSE state
                /\ county' = IF toCounty
                             THEN InsertOrIgnore(county,
                                      CountyRow(t[3][1], state_id),
                                      sqlite_sequence[CountyT])
                             ELSE county
                /\ sqlite_sequence' =
                      <<sqlite_sequence[ContinentT] + 1,
                        sqlite_sequence[CountryT] + 1,
                        sqlite_sequence[StateT] + (IF toState THEN 1 ELSE 0),
                        sqlite_sequence[CountyT] + (IF toCounty THEN 1 ELSE 0)>>
    /\ UNCHANGED <<env, data_point, dp_committed, hier_committed,
                   seq_committed, pc, fill_locals, outcome, changed,
                   rows_before, prev_done>>

\* the loop ends: `await conn.commit()`; init_db returns
PlaceCommit ==
    /\ pc = "place_loop"
    /\ rows = {}
    /\ hier_committed' = HierLens
    /\ seq_committed' = sqlite_sequence
    /\ DropLocals
    /\ pc' = "idle"
    /\ outcome' = "ok"
    /\ UNCHANGED <<env, data_point, dp_committed, continent, country, state,
                   county, sqlite_sequence, changed, prev_done>>

----------------------------------------------------------------------------
(* The environment *)

\* the process is killed (or the store fails) while init_db runs
Kill ==
    /\ pc # "idle"
    /\ Rollback
    /\ DropLocals
    /\ pc' = "idle"
    /\ outcome' = "killed"
    /\ UNCHANGED <<env, changed, prev_done>>

\* a DictReader row; columns the file does not have read as None
RawRow(fips, admin2, prov, ctry, confirmed, deaths) ==
    [FIPS |-> fips, Admin2 |-> admin2, Province_State |-> prov,
     Province_State_old |-> None, Country_Region |-> ctry,
     Country_Region_old |-> None, Confirmed |-> confirmed, Deaths |-> deaths,
     Recovered |-> None, Active |-> None, Incident_Rate |-> None,
     Case_Fatality_Ratio |-> None, Lat |-> None, Long_ |-> None]

\* a row of a legacy-format file ("Province/State", "Country/Region")
LegacyRow(prov, ctry, confirmed, deaths) ==
    [RawRow(None, None, None, None, confirmed, deaths)
        EXCEPT !.Province_State_old = prov, !.Country_Region_old = ctry]

Orange_CA(confirmed) ==
    RawRow(Some("06059"), Some("Orange"), Some("California"), Some("US"),
           Some(confirmed), Some("5"))
Orange_FL ==
    [RawRow(Some("12095"), Some("Orange"), Some("Florida"), Some("US"),
            Some("7"), Some(""))
        EXCEPT !.Lat = Some("7"), !.Long_ = Some("5")]
France == LegacyRow(Some(""), Some("France"), Some("5"), Some("0"))
Punjab_IN == RawRow(Some(""), Some(""), Some("Punjab"), Some("India"),
                    Some("100"), Some("7"))
Punjab_PK == RawRow(Some(""), Some(""), Some("Punjab"), Some("Pakistan"),
                    Some("150"), Some("5"))
NoCountry == RawRow(None, None, Some("Punjab"), None, Some("5"), Some("0"))

\* a legacy-format row whose Country/Region is blank: stored with country ""
BlankCountry == LegacyRow(Some("Punjab"), Some(""), Some("5"), Some("0"))

\* a US row that is assigned to no state
UnknownProv ==
    RawRow(Some("90056"), Some("Unassigned"), Some("Unknown"), Some("US"),
           Some("7"), Some("0"))

\* a row of another country with a second-level place, under a province
\* that has the name of a US state
Florida_UY ==
    RawRow(Some(""), Some("Sarandi"), Some("Florida"), Some("Uruguay"),
           Some("5"), Some("0"))

\* the contents a daily snapshot file can have in the short range
FileChoices ==
    {None,
     Some(<<Orange_CA("100"), France>>),
     Some(<<Orange_CA("150"), Orange_FL>>),
     Some(<<Punjab_IN, Punjab_PK>>),
     Some(<<Orange_CA("100"), Orange_CA("150")>>),
     Some(<<NoCountry>>)}

\* the place key of a stored row within its day
PlaceKey(t) == <<t.country, t.province, t.us_county_name>>

\* the file holds at most one row per (country, province, county)
Deduplicated(f) ==
    f = None \/ \A i, j \in 1..Len(f[1]) :
        i # j => PlaceKey(ToTuple(start_date, f[1][i]))
                    # PlaceKey(ToTuple(start_date, f[1][j]))

\* between two process starts a snapshot file is added, removed or replaced
\* (once in a behaviour)
ChangeFile ==
    /\ pc = "idle"
    /\ ~changed
    /\ outcome # "none"
    /\ \E d \in RangeDays(SmallEnd), f \in FileChoices :
        /\ f # files[FileName(d)]
        /\ files' = [files EXCEPT ![FileName(d)] = f]
        /\ dup_seen' = (dup_seen \/ ~Deduplicated(f))
    /\ changed' = TRUE
    /\ prev_done' = None
    /\ UNCHANGED <<main_vars,
                   end_date, data_point, dp_committed, hier, pc, fill_locals,
                   place_locals, outcome, rows_before, request, scope, response,
                   pre_vars>>

----------------------------------------------------------------------------
(* Specification *)

FileNames(n) == {FileName(d) : d \in RangeDays(n)}

\* the state after init_schema on a new database, before the first start
InitStore ==
    /\ data_point = <<>>
    /\ dp_committed = 0
    /\ continent = <<>> /\ country = <<>> /\ state = <<>> /\ county = <<>>
    /\ sqlite_sequence = <<0, 0, 0, 0>>
    /\ hier_committed = <<0, 0, 0, 0>>
    /\ seq_committed = <<0, 0, 0, 0>>
    /\ pc = "idle"
    /\ current = start_date
    /\ existing_dates = {}
    /\ batch_size = 0
    /\ total_inserted = 0
    /\ rows = {}
    /\ country_cache = {}
    /\ outcome = "none"
    /\ changed = FALSE
    /\ rows_before = <<>>
    /\ prev_done = None
    /\ request = None
    /\ scope = None
    /\ response = None
    /\ pre_pc = "none"
    /\ pre_date = start_date
    /\ all_data = <<>>
    /\ prev_day_map = {}
    /\ data = None
    /\ covid_data = <<>>
    /\ covid_committed = 0
    /\ filtered = None

\* a short range whose files are any of FileChoices
InitSmall ==
    /\ end_date = DatePlus(start_date, SmallEnd)
    /\ files \in [FileNames(SmallEnd) -> FileChoices]
    /\ dup_seen = (\E n \in FileNames(SmallEnd) : ~Deduplicated(files[n]))

\* a long range of one-row files; the file in the middle of the range is
\* missing, or holds only the header, or is like the others
InitLong ==
    /\ end_date = DatePlus(start_date, LongEnd)
    /\ \E f \in {None, Some(<<>>), Some(<<France>>)} :
        files = [n \in FileNames(LongEnd) |->
                    IF n = FileName(DatePlus(start_date, LongEnd \div 2))
                    THEN f ELSE Some(<<France>>)]
    /\ dup_seen = FALSE

Init == InitStore /\ (InitSmall \/ InitLong)

RECURSIVE DaysFrom(_)
\* the days d .. end_date
DaysFrom(d) == IF DateLe(d, end_date) THEN {d} \cup DaysFrom(NextDay(d)) ELSE {}

\* the days of the ingestion range start_date..end_date
DaysInRange == DaysFrom(start_date)

\* the process is started only while the counters have room for every
\* insert of the start, so that a start that is not killed runs to its end:
\* place_db raises the continent and country counters once for each triple
\* with a country, of the rows stored and of the files fill_db will load
\* (a file on which int() raises is never loaded)
SeqRoom ==
    LET stored == DistinctDates(data_point)
        pending == {d \in DaysInRange :
                        /\ Exists(d)
                        /\ IsoFormat(d) \notin stored
                        /\ ~\E i \in 1..Len(Reader(d)) :
                                RaisesValueError(Reader(d)[i])}
        triples == DistinctTriples(data_point) \cup
                   UNION {{PlaceKey(ToTuple(d, Reader(d)[i])) :
                              i \in 1..Len(Reader(d))} : d \in pending}
    IN  sqlite_sequence[ContinentT]
            + Cardinality({t \in triples : ~Skips(t)}) <= MaxSeq

Next ==
    \/ StartFill /\ SeqRoom
    \/ SkipExisting
    \/ SkipMissing
    \/ InsertDay
    \/ InsertRaises
    \/ BatchCommit
    \/ FinalCommit
    \/ PlaceStart
    \/ \E t \in rows : PlaceRow(t)
    \/ PlaceCommit
    \/ Kill
    \/ ChangeFile

Spec == Init /\ [][Next]_vars

----------------------------------------------------------------------------
(* init_db over one day whose file holds any rows of five kinds, in any    *)
(* order: the triples place_db meets                                       *)

\* the number of rows of the file
MaxPlaceRows == 3

PlaceRowChoices == {Orange_FL, Florida_UY, France, BlankCountry, UnknownProv}

\* the files of at most MaxPlaceRows rows (a header-only file among them)
PlaceFileChoices ==
    UNION {[1..k -> PlaceRowChoices] : k \in 0..MaxPlaceRows}

InitPlace ==
    /\ InitStore
    /\ end_date = start_date
    /\ files \in [FileNames(0) -> {Some(f) : f \in PlaceFileChoices}]
    /\ dup_seen = (\E n \in FileNames(0) : ~Deduplicated(files[n]))

NextPlace ==
    \/ StartFill /\ SeqRoom
    \/ SkipExisting
    \/ InsertDay
    \/ FinalCommit
    \/ PlaceStart
    \/ \E t \in rows : PlaceRow(t)
    \/ PlaceCommit

SpecPlace == InitPlace /\ [][NextPlace]_vars

----------------------------------------------------------------------------
(* lifespan of src/back/app/main.py: init_db of db/base.py, then fill_db   *)
(* of main.py on an ORM session; its rows are CovidData objects, a table   *)
(* of their own                                                            *)

\* the CovidData object built from DictReader row r on day d (lines 50-83)
MainRecord(d, r) ==
    [date |-> d,
     us_county_id |-> r.FIPS,
     us_county_name |-> r.Admin2,
     province |-> Or(Or(r.Province_State, r.Province_State_old), Some("")),
     country |-> Or(Or(r.Country_Region, r.Country_Region_old), Some("")),
     confirmed |-> IntOrZero(r.Confirmed),
     deaths |-> IntOrZero(r.Deaths),
     recovered |-> IntOrNone(r.Recovered),
     active |-> IntOrNone(r.Active),
     incident_rate |-> IntOrNone(r.Incident_Rate),
     case_fatality_ratio |-> IntOrNone(r.Case_Fatality_Ratio)]

\* int()/float() of lines 60-82 raises ValueError on this row
MainRaisesValueError(r) ==
    \E c \in {"Confirmed", "Deaths", "Recovered", "Active", "Incident_Rate",
              "Case_Fatality_Ratio"} :
        Truthy(r[c]) /\ r[c][1] \notin IntLiterals

\* SELECT ... WHERE date == current finds a CovidData row (lines 38-41)
MainExisting(d) == \E i \in 1..Len(covid_data) : covid_data[i].date = d

\* the days of the CovidData rows the session holds uncommitted
MainUncommittedDays ==
    {covid_data[i].date : i \in covid_committed + 1..Len(covid_data)}

\* `await init_db()` has returned (line 93): lifespan opens a session and
\* enters fill_db, lines 94-95 and 27-30
MainStart ==
    /\ pc = "idle"
    /\ outcome = "ok"
    /\ current' = start_date
    /\ outcome' = "none"
    /\ pc' = "main_loop"
    /\ UNCHANGED <<env, data_point, dp_committed, hier, existing_dates,
                   batch_size, total_inserted, place_locals, changed,
                   rows_before, prev_done>>

\* select(CovidData).where(CovidData.date == current) finds a row:
\* `if existing: current += 1 day; continue`
MainSkipExisting ==
    /\ pc = "main_loop"
    /\ DateLe(current, end_date)
    /\ MainExisting(current)
    /\ current' = NextDay(current)
    /\ UNCHANGED <<env, data_point, dp_committed, hier, pc, existing_dates,
                   batch_size, total_inserted, place_locals, outcome, changed,
                   rows_before, prev_done>>

\* no row of the day and `csv_path.exists()` is false: current += 1 day
MainSkipMissing ==
    /\ pc = "main_loop"
    /\ DateLe(current, end_date)
    /\ ~MainExisting(current)
    /\ ~Exists(current)
    /\ current' = NextDay(current)
    /\ UNCHANGED <<env, data_point, dp_committed, hier, pc, existing_dates,
                   batch_size, total_inserted, place_locals, outcome, changed,
                   rows_before, prev_done>>

\* the day's file is read and its records are added to the session
\* (db.add_all); nothing is committed in the loop
MainAddAll ==
    /\ pc = "main_loop"
    /\ DateLe(current, end_date)
    /\ ~MainExisting(current)
    /\ Exists(current)
    /\ ~\E i \in 1..Len(Reader(current)) :
            MainRaisesValueError(Reader(current)[i])
    /\ covid_data' = covid_data \o
            [i \in 1..Len(Reader(current)) |->
                MainRecord(current, Reader(current)[i])]
    /\ current' = NextDay(current)
    /\ UNCHANGED <<world, covid_committed, data_point, dp_committed, hier, pc,
                   existing_dates, batch_size, total_inserted, place_locals,
                   outcome, changed, rows_before, prev_done>>

\* int()/float() raises: the exception leaves fill_db and the lifespan, the
\* session closes and what it held is lost
MainRaises ==
    /\ pc = "main_loop"
    /\ DateLe(current, end_date)
    /\ ~MainExisting(current)
    /\ Exists(current)
    /\ \E i \in 1..Len(Reader(current)) :
            MainRaisesValueError(Reader(current)[i])
    /\ Rollback
    /\ covid_data' = Prefix(covid_data, covid_committed)
    /\ DropLocals
    /\ pc' = "idle"
    /\ outcome' = "raised"
    /\ UNCHANGED <<world, covid_committed, changed, prev_done>>

\* the loop ends: the only `await db.commit()` (line 88); fill_db returns,
\* the session closes and the application serves (line 96)
MainCommit ==
    /\ pc = "main_loop"
    /\ ~DateLe(current, end_date)
    /\ covid_committed' = Len(covid_data)
    /\ pc' = "main_done"
    /\ UNCHANGED <<world, covid_data, data_point, dp_committed, hier,
                   fill_locals, place_locals, outcome, changed, rows_before,
                   prev_done>>

\* the process is killed or stopped at any point of the lifespan: during
\* init_db, between init_db and the session, in fill_db, or while serving
MainKill ==
    /\ pc # "idle" \/ outcome = "ok"
    /\ Rollback
    /\ covid_data' = Prefix(covid_data, covid_committed)
    /\ DropLocals
    /\ pc' = "idle"
    /\ outcome' = "killed"
    /\ UNCHANGED <<world, covid_committed, changed, prev_done>>

\* the files of the short range: missing; the legacy file of one row; a
\* file whose header is FIPS, Admin2, Province_State, Country_Region,
\* Confirmed, Deaths, Recovered (a column a row leaves blank reads "") with
\* two rows, Recovered blank in one and 7 in the other; such a file whose
\* Recovered is not a number; a legacy file whose Confirmed is not a number
MainFileChoices ==
    LET France_modern(recovered) ==
            [RawRow(Some(""), Some(""), Some(""), Some("France"), Some("5"),
                    Some("0"))
                EXCEPT !.Recovered = Some(recovered)]
    IN  {None,
         Some(<<France>>),
         Some(<<[Orange_CA("100") EXCEPT !.Recovered = Some("")],
                France_modern("7")>>),
         Some(<<France_modern("n/a")>>),
         Some(<<[France EXCEPT !.Confirmed = Some("n/a")]>>)}

\* empty tables and either the long range of one-row files or a short
\* range of the files above
InitMain ==
    /\ InitStore
    /\ \/ InitLong
       \/ /\ end_date = DatePlus(start_date, SmallEnd)
          /\ files \in [FileNames(SmallEnd) -> MainFileChoices]
          /\ dup_seen = FALSE

\* the process starts over after it was killed or an exception ended it;
\* init_db runs to its end before fill_db of main.py begins
NextMain ==
    \/ StartFill /\ SeqRoom /\ outcome # "ok"
    \/ SkipExisting
    \/ SkipMissing
    \/ InsertDay
    \/ InsertRaises
    \/ BatchCommit
    \/ FinalCommit
    \/ PlaceStart
    \/ \E t \in rows : PlaceRow(t)
    \/ PlaceCommit
    \/ MainStart
    \/ MainSkipExisting
    \/ MainSkipMissing
    \/ MainAddAll
    \/ MainRaises
    \/ MainCommit
    \/ MainKill

SpecMain == InitMain /\ [][NextMain]_vars

----------------------------------------------------------------------------
(* Properties of fill_db *)

\* the rows of dp whose date is iso, in insertion order
DayRows(dp, iso) == SelectSeq(dp, LAMBDA t : t.date = iso)

\* the days that have rows the connection has not committed
UncommittedDays ==
    DistinctDates(SubSeq(data_point, dp_committed + 1, Len(data_point)))

\* this step ends the process without commit (killed, or an exception)
Aborts == pc # "idle" /\ pc' = "idle" /\ outcome' \in {"killed", "raised"}

\* C1: a complete fill_db run over the file set of the previous complete
\* run leaves data_point exactly as that previous run left it (same rows,
\* same order, same count)
C1_Idempotent ==
    (pc = "fill_done" /\ prev_done # None) => data_point = prev_done[1]

\* C1 witness: a second complete run has skipped a populated day whose file
\* is still there
C1_Witness ==
    /\ pc = "fill_done"
    /\ prev_done # None
    /\ \E d \in DaysInRange : Exists(d) /\ IsoFormat(d) \in existing_dates
    /\ Len(data_point) >= 2

\* C2: the days that had a row when fill_db began keep exactly their rows,
\* in their order; the run inserts nothing for them, whatever their files
\* hold now
C2_PopulatedDayUntouched ==
    LET before == {rows_before[i].date : i \in 1..Len(rows_before)}
    IN  SelectSeq(data_point, LAMBDA t : t.date \in before) = rows_before

\* C2 witness: a run has ended, and the file of a day it found populated
\* holds rows that differ from the stored rows of that day
C2_Witness ==
    /\ pc = "fill_done"
    /\ \E d \in DaysInRange :
        /\ DayRows(rows_before, IsoFormat(d)) # <<>>
        /\ Exists(d)
        /\ ~RaisesIntegrityError(ReadRows(d, Reader(d)))
        /\ ReadRows(d, Reader(d)) # DayRows(data_point, IsoFormat(d))

\* C3: at most BatchDays inserted days are ever uncommitted, fewer at the
\* top of the loop (the commit follows the 30th day at once), everything is
\* committed when fill_db has returned, and a process that dies loses the
\* rows of at most BatchDays days; this of the rows of data_point that
\* fill_db of base.py inserts and of the CovidData rows that fill_db of
\* main.py inserts.  It holds of Spec (fill_db of base.py); it fails of
\* SpecMain, where fill_db of main.py commits once, after the loop
C3_BatchedCommits ==
    /\ [](/\ Cardinality(UncommittedDays) <= BatchDays
          /\ Cardinality(MainUncommittedDays) <= BatchDays
          /\ pc = "fill_loop" => Cardinality(UncommittedDays) < BatchDays
          /\ pc = "main_loop" => Cardinality(MainUncommittedDays) < BatchDays
          /\ pc = "fill_commit" => batch_size % BatchDays = 0
          /\ pc \in {"fill_done", "place_loop"}
                => dp_committed = Len(data_point)
          /\ pc = "main_done" => covid_committed = Len(covid_data))
    /\ [][Aborts =>
            /\ Cardinality(DistinctDates(data_point)
                             \ DistinctDates(data_point')) <= BatchDays
            /\ Cardinality(DistinctDates(covid_data)
                             \ DistinctDates(covid_data')) <= BatchDays]_vars

\* the case of C3 in Spec: the second batch of a run is full and about to
\* be committed
C3_Witness ==
    /\ pc = "fill_commit"
    /\ batch_size = 2 * BatchDays
    /\ Cardinality(UncommittedDays) = BatchDays
    /\ dp_committed > 0

\* the loop is at a day that is not populated and has no file
AtMissingDay ==
    /\ pc = "fill_loop"
    /\ DateLe(current, end_date)
    /\ IsoFormat(current) \notin existing_dates
    /\ ~Exists(current)

\* C4: at a day without a file fill_db raises nothing and changes nothing
\* but `current`, which moves to the next day (unless the process is
\* killed there); and a finished run holds no row for such a day
C4_MissingFileSkipped ==
    /\ [][AtMissingDay =>
            \/ pc' = "idle" /\ outcome' = "killed"
            \/ /\ pc' = "fill_loop"
               /\ current' = NextDay(current)
               /\ UNCHANGED <<data_point, dp_committed, batch_size,
                              total_inserted, existing_dates, outcome,
                              hier, files>>]_vars
    /\ [](pc = "fill_done" =>
            \A d \in DaysInRange :
                (~Exists(d) /\ IsoFormat(d) \notin existing_dates)
                    => DayRows(data_point, IsoFormat(d)) = <<>>)

\* C4 witness: a run has passed a day without a file and inserted the day
\* after it
C4_Witness ==
    /\ pc = "fill_done"
    /\ \E d \in DaysInRange :
        /\ ~Exists(d) /\ IsoFormat(d) \notin existing_dates
        /\ DayRows(data_point, IsoFormat(NextDay(d))) # <<>>
        /\ DayRows(rows_before, IsoFormat(NextDay(d))) = <<>>

\* C5: data_point is append-only: committed rows stay for ever as they
\* are, and every step other than the loss of an open transaction keeps
\* all rows the connection sees, unchanged and in place
C5_AppendOnly ==
    [][/\ dp_committed <= dp_committed'
       /\ IsPrefix(Prefix(data_point, dp_committed), data_point')
       /\ ~Aborts => IsPrefix(data_point, data_point')]_vars

\* C5 witness: a hierarchy build runs on a store that a second ingestion
\* run has extended
C5_Witness ==
    /\ pc = "place_loop"
    /\ rows_before # <<>>
    /\ Len(data_point) > Len(rows_before)
    /\ Len(country) > 0

\* the key of a stored row
RowKey(t) == <<t.date, t.country, t.province, t.us_county_name>>

\* C6: if no snapshot file ever held two rows of one (country, province,
\* county), data_point holds at most one row per (date, country, province,
\* county)
C6_OneRowPerKey ==
    ~dup_seen =>
        Cardinality({RowKey(data_point[i]) : i \in 1..Len(data_point)})
            = Len(data_point)

\* C6 witness: after a second complete run the store holds one place on two
\* days
C6_Witness ==
    /\ ~dup_seen
    /\ pc = "fill_done"
    /\ prev_done # None
    /\ \E i, j \in 1..Len(data_point) :
        /\ PlaceKey(data_point[i]) = PlaceKey(data_point[j])
        /\ data_point[i].date # data_point[j].date

----------------------------------------------------------------------------
(* The Snapshot Reader on one row: every combination of missing, blank,    *)
(* zero and non-zero numeric columns                                        *)

\* what a numeric column of a row can hold: no such column, blank, "0", "7"
FieldChoices == {None, Some(""), Some("0"), Some("7")}

\* a one-day range whose file holds one row of country France
InitParse ==
    /\ InitStore
    /\ end_date = start_date
    /\ dup_seen = FALSE
    /\ \E cf \in FieldChoices \cup {Some("n/a")}, de, ac, ir, cr, la, lo \in FieldChoices :
        files = [n \in FileNames(0) |->
                    Some(<<[France EXCEPT !.Confirmed = cf, !.Deaths = de,
                                !.Active = ac, !.Incident_Rate = ir,
                                !.Case_Fatality_Ratio = cr, !.Lat = la,
                                !.Long_ = lo]>>)]

NextParse == StartFill \/ InsertDay \/ InsertRaises \/ FinalCommit

SpecParse == InitParse /\ [][NextParse]_vars

\* the source field is blank or not there at all
Blank(v) == v \in {None, Some("")}

\* C7: of the one row of the file, confirmed and deaths are stored as 0
\* when blank, and active, incident_rate, case_fatality_ratio, lat and lon
\* are stored as NULL, not 0, when the source field is missing
C7_AbsentStaysAbsent ==
    (pc = "fill_done" /\ Len(data_point) = 1) =>
        LET r == Reader(start_date)[1]
            t == data_point[1]
        IN  /\ Blank(r.Confirmed) => t.confirmed = 0
            /\ Blank(r.Deaths) => t.deaths = 0
            /\ Blank(r.Active) => t.active = None
            /\ Blank(r.Incident_Rate) => t.incident_rate = None
            /\ Blank(r.Case_Fatality_Ratio) => t.case_fatality_ratio = None
            /\ Blank(r.Lat) => t.lat = None
            /\ Blank(r.Long_) => t.lon = None

----------------------------------------------------------------------------
(* Properties of place_db *)

\* init_db has returned: ingestion and the hierarchy build are committed
BuildDone == pc = "idle" /\ outcome = "ok"

\* triple t has its path continent -> country [-> state [-> county]]
HasPath(t) ==
    \E ci \in 1..Len(country) :
        /\ country[ci].name = t[1][1]
        /\ country[ci].parent \in Ids(continent)
        /\ Truthy(NormProvince(t[2])) =>
            \E si \in 1..Len(state) :
                /\ state[si].name = t[2][1]
                /\ state[si].parent = country[ci].id
                /\ (Truthy(t[3]) /\ t[1] = Some("US")) =>
                    \E ki \in 1..Len(county) :
                        /\ county[ki].name = t[3][1]
                        /\ county[ki].parent = state[si].id

\* C8: after a build pass every distinct (country, province, county) of
\* data_point with a country has its path in the hierarchy tables
C8_HierarchyComplete ==
    BuildDone =>
        \A t \in DistinctTriples(data_point) : Truthy(t[1]) => HasPath(t)

\* every parent reference of table child is the id of a row of table parent
RefersInto(child, parent) ==
    \A i \in 1..Len(child) : child[i].parent \in Ids(parent)

\* no two rows of the table share an id
UniqueIds(tbl) ==
    \A i, j \in 1..Len(tbl) : tbl[i].id = tbl[j].id => i = j

\* C9: in every state of the hierarchy tables every country row references
\* an existing continent row, every state row an existing country row and
\* every county row an existing state row, and the referenced row is the
\* only one with that id
C9_OwnershipIsTree ==
    /\ RefersInto(country, continent)
    /\ RefersInto(state, country)
    /\ RefersInto(county, state)
    /\ UniqueIds(continent) /\ UniqueIds(country) /\ UniqueIds(state)

\* C9 witness: a committed hierarchy with all four levels and two continents
C9_Witness ==
    /\ BuildDone
    /\ Len(continent) >= 2
    /\ Len(state) >= 2
    /\ Len(county) >= 1

\* no two rows of the table share a name
UniqueNames(tbl) ==
    \A i, j \in 1..Len(tbl) : tbl[i].name = tbl[j].name => i = j

\* C10: names are unique in each hierarchy table, and a row once written
\* stays as it is (same id, name and parent) through every later upsert:
\* only the loss of an open transaction removes rows
C10_FirstWriterWins ==
    /\ [](/\ UniqueNames(continent) /\ UniqueNames(country)
          /\ UniqueNames(state) /\ UniqueNames(county))
    /\ [][~Aborts =>
            /\ IsPrefix(continent, continent') /\ IsPrefix(country, country')
            /\ IsPrefix(state, state') /\ IsPrefix(county, county')]_vars

\* C10 witness: two countries of data_point share a province name; the
\* build has upserted both, and the one state row of that name belongs to
\* one of them
C10_Witness ==
    /\ BuildDone
    /\ \E t, u \in DistinctTriples(data_point) :
        /\ t[1] # u[1] /\ t[2] = u[2] /\ Truthy(NormProvince(t[2]))
        /\ \E ci, cj \in 1..Len(country), si \in 1..Len(state) :
            /\ country[ci].name = t[1][1]
            /\ country[cj].name = u[1][1]
            /\ state[si].name = t[2][1]
            /\ state[si].parent = country[ci].id

\* the names held by a hierarchy table
Names(tbl) == {tbl[i].name : i \in 1..Len(tbl)}

\* the distinct triples of dp that have a country
PlaceableTriples(dp) == {t \in DistinctTriples(dp) : Truthy(t[1])}

\* the hierarchy tables hold what one complete pass of place_db over dp
\* yields from empty tables: one row per name, every country under the
\* continent of its region, every state under a country it occurs with in
\* dp, every county under a state it occurs with in a US row of dp
IsBuildOf(dp) ==
    LET T == PlaceableTriples(dp)
        S == {t \in T : Truthy(NormProvince(t[2]))}
        K == {t \in S : TakesCounty(t[1], t[3])}
    IN  /\ UniqueNames(continent) /\ UniqueNames(country)
        /\ UniqueNames(state) /\ UniqueNames(county)
        /\ Names(continent) = {Region(t[1][1]) : t \in T}
        /\ Names(country) = {t[1][1] : t \in T}
        /\ \A i \in 1..Len(country) :
            RowById(continent, country[i].parent).name
                = Region(country[i].name)
        /\ Names(state) = {t[2][1] : t \in S}
        /\ \A i \in 1..Len(state) : \E t \in S :
            /\ t[2][1] = state[i].name
            /\ RowById(country, state[i].parent).name = t[1][1]
        /\ Names(county) = {t[3][1] : t \in K}
        /\ \A i \in 1..Len(county) : \E t \in K :
            /\ t[3][1] = county[i].name
            /\ RowById(state, county[i].parent).name = t[2][1]

\* C11: whenever init_db has returned, after first builds, repeated builds
\* and builds that follow a pass that stopped part-way, the hierarchy rows
\* (names and parents) are those of one complete pass over data_point; and
\* a pass over tables that already are a build of data_point changes no row
\* (only the loss of an open transaction takes rows away)
C11_BuildIdempotent ==
    /\ [](BuildDone => IsBuildOf(data_point))
    /\ [][(pc = "place_loop" /\ IsBuildOf(data_point) /\ ~Aborts) =>
            UNCHANGED <<continent, country, state, county>>]_vars

\* C11 witness: a later pass is under way over committed tables that hold
\* states; it has upserted some triples and no row was added
C11_Witness ==
    /\ pc = "place_loop"
    /\ rows # DistinctTriples(data_point)
    /\ hier_committed = HierLens
    /\ Len(state) >= 1
    /\ Len(country) >= 2

----------------------------------------------------------------------------
(* Properties of place_db on single triples *)

\* this step is the loop iteration of place_db on triple t
Iterates(t) == pc = "place_loop" /\ t \in rows /\ rows' = rows \ {t} /\ ~Aborts

\* C12: the iteration on a triple with no country changes no hierarchy
\* table and ends no run (the loop stays in place_db, nothing is raised);
\* and when init_db has returned, every country of the other triples has
\* its row, whatever the position of the skipped triple in the scan
C12_NoCountrySkipped ==
    /\ [][\A t \in rows : (Iterates(t) /\ ~Truthy(t[1])) =>
            /\ UNCHANGED <<continent, country, state, county>>
            /\ pc' = "place_loop" /\ outcome' = outcome]_vars
    /\ [](BuildDone =>
            /\ Names(country) = {t[1][1] : t \in PlaceableTriples(data_point)}
            /\ "" \notin Names(country))

\* C12 witness: the store holds a row with country "" and rows of two
\* countries; the build has finished and placed both
C12_Witness ==
    /\ BuildDone
    /\ \E t \in DistinctTriples(data_point) : t[1] = Some("")
    /\ Len(country) = 2

\* C13: the iteration on a triple whose province is absent, blank or
\* "Unknown" adds no state and no county row, no state is ever named
\* "Unknown", and after the build the country of such a triple is a row
\* under the continent of its region
C13_NoProvinceNoState ==
    /\ [][\A t \in rows : (Iterates(t) /\ ~Truthy(NormProvince(t[2]))) =>
            UNCHANGED <<state, county>>]_vars
    /\ []("Unknown" \notin Names(state))
    /\ [](BuildDone =>
            \A t \in PlaceableTriples(data_point) :
                ~Truthy(NormProvince(t[2])) =>
                    \E i \in 1..Len(country) :
                        /\ country[i].name = t[1][1]
                        /\ RowById(continent, country[i].parent).name
                              = Region(t[1][1]))

\* C13 witness: the store holds only France with no province and a US row
\* of province "Unknown" with a county; after the build both countries are
\* there and the state and county tables are empty
C13_Witness ==
    /\ BuildDone
    /\ \E t \in DistinctTriples(data_point) :
        t = <<Some("France"), None, None>>
    /\ \E t \in DistinctTriples(data_point) :
        t[2] = Some("Unknown") /\ Truthy(t[3])
    /\ Len(country) = 2
    /\ state = <<>> /\ county = <<>>

\* C14: every county row is owned by a state that is owned by the country
\* named US
C14_CountyUnderUS ==
    \A i \in 1..Len(county) :
        RowById(country, RowById(state, county[i].parent).parent).name = "US"

----------------------------------------------------------------------------
(* routes/filter.py: get_data, filter_data and get_dates                   *)
(* A request of get_data is a record of optional parameters: start_date,   *)
(* end_date and date_ are None or Some(<<y, m, d>>), the four place        *)
(* filters are None or Some(string).                                       *)

\* str.lower() on the names and filters of the model
Lower(s) ==
    CASE s = "US" -> "us"
      [] s = "France" -> "france"
      [] s = "Uruguay" -> "uruguay"
      [] s = "California" -> "california"
      [] s = "Florida" -> "florida"
      [] s = "Orange" -> "orange"
      [] s = "Sarandi" -> "sarandi"
      [] s = "Americas" -> "americas"
      [] s = "Europe" -> "europe"
      [] s = "Unknown" -> "unknown"
      [] s = "Punjab" -> "punjab"
      [] s = "India" -> "india"
      [] s = "Pakistan" -> "pakistan"
      [] s = "Asia" -> "asia"
      [] s = "Unassigned" -> "unassigned"
      [] s = "Global" -> "global"
      [] s = "US " -> "us "
      [] s \in {"Río Negro", "RÍO NEGRO"} -> "río negro"
      [] OTHER -> s

\* SQL LOWER() of SQLite, which folds the letters A-Z only and leaves every
\* other character as it is
SqlLower(s) ==
    CASE s = "RÍO NEGRO" -> "rÍo negro"
      [] OTHER -> Lower(s)

\* date.fromisoformat on a stored date
FromIso(s) ==
    <<s[1] * 1000 + s[2] * 100 + s[3] * 10 + s[4], s[5] * 10 + s[6],
      s[7] * 10 + s[8]>>

\* the order of two stored dates as SQLite compares TEXT
IsoLe(a, b) ==
    a = b \/ \E i \in 1..Len(a) :
                a[i] < b[i] /\ \A j \in 1..(i - 1) : a[j] = b[j]

\* SELECT MIN(date), MAX(date) FROM data_point: None on an empty table
MinDate(dp) ==
    IF dp = <<>> THEN None
    ELSE Some(CHOOSE x \in DistinctDates(dp) :
                \A y \in DistinctDates(dp) : IsoLe(x, y))
MaxDate(dp) ==
    IF dp = <<>> THEN None
    ELSE Some(CHOOSE x \in DistinctDates(dp) :
                \A y \in DistinctDates(dp) : IsoLe(y, x))

\* lines 111-120: the date range of the request; with a date missing and
\* an empty table date.fromisoformat(None) raises TypeError
EffDates(q) ==
    LET s0 == IF q.date_ # None THEN q.date_ ELSE q.start_date
        e0 == IF q.date_ # None THEN q.date_ ELSE q.end_date
    IN  IF s0 # None /\ e0 # None
        THEN [ok |-> TRUE, start |-> s0[1], end |-> e0[1]]
        ELSE IF data_point = <<>> THEN [ok |-> FALSE]
        ELSE [ok |-> TRUE,
              start |-> IF s0 # None THEN s0[1]
                        ELSE FromIso(MinDate(data_point)[1]),
              end |-> IF e0 # None THEN e0[1]
                      ELSE FromIso(MaxDate(data_point)[1])]

\* the LEFT JOINs of lines 153-156 on row t: the names of its continent,
\* country, state and county, each NULL when the join finds no row
Joined(t) ==
    LET ci == {i \in 1..Len(country) : country[i].name = t.country[1]}
        cids == {country[i].id : i \in ci}
        si == {i \in 1..Len(state) :
                /\ t.province # None /\ state[i].name = t.province[1]
                /\ state[i].parent \in cids}
        sids == {state[i].id : i \in si}
        ki == {i \in 1..Len(county) :
                /\ t.us_county_name # None
                /\ county[i].name = t.us_county_name[1]
                /\ county[i].parent \in sids}
    IN  [continent_name |-> IF ci = {} THEN None
             ELSE Some(RowById(continent,
                               country[CHOOSE i \in ci : TRUE].parent).name),
         country_name |-> IF ci = {} THEN None
             ELSE Some(country[CHOOSE i \in ci : TRUE].name),
         state_name |-> IF si = {} THEN None
             ELSE Some(state[CHOOSE i \in si : TRUE].name),
         county_name |-> IF ki = {} THEN None
             ELSE Some(county[CHOOSE i \in ki : TRUE].name)]

\* one WHERE clause `LOWER(x.name) = LOWER(:param)`, added `if param:`
FilterOk(param, name) ==
    Truthy(param) => (name # None /\ SqlLower(name[1]) = SqlLower(param[1]))

\* `dp.date BETWEEN :start AND :end` on the ISO strings
InRange(d, eff) ==
    IsoLe(IsoFormat(eff.start), d) /\ IsoLe(d, IsoFormat(eff.end))

\* the rows (by position) that satisfy the WHERE clause of the request
Selected(q, eff) ==
    {i \in 1..Len(data_point) :
        /\ InRange(data_point[i].date, eff)
        /\ FilterOk(q.continent, Joined(data_point[i]).continent_name)
        /\ FilterOk(q.country, Joined(data_point[i]).country_name)
        /\ FilterOk(q.state, Joined(data_point[i]).state_name)
        /\ FilterOk(q.county, Joined(data_point[i]).county_name)}

\* `x or 0` on a nullable number
OrZero(v) == IF v = None THEN 0 ELSE v[1]

\* what the loop of lines 178-240 adds up for the rows I in column col:
\* SUM() per group skips NULL, `confirmed or 0` turns a NULL sum into 0
Total(I, col) ==
    LET RECURSIVE S(_)
        S(J) == IF J = {} THEN 0
                ELSE LET i == CHOOSE x \in J : TRUE
                     IN  OrZero(data_point[i][col]) + S(J \ {i})
    IN  S(I)

\* make_node(place) with the totals of rows I and the list detail of the
\* child nodes (a node without the key "detail" has the empty list)
make_node(place, I, detail, eff) ==
    [place |-> place,
     confirmed |-> Total(I, "daily_confirmed"),
     deaths |-> Total(I, "daily_deaths"),
     date_range |-> [start |-> IsoFormat(eff.start),
                     end |-> IsoFormat(eff.end)],
     detail |-> detail]

\* the place of a nullable name in the order of the rows of the statement:
\* SQLite sorts the groups by the GROUP BY terms, NULL first and the names
\* byte by byte (capital letters before small ones)
SqlRank(v) ==
    LET order == <<"", " ", "Americas", "Asia", "California", "Europe",
                   "Florida", "France", "Global", "India", "Orange",
                   "Pakistan", "Punjab", "RÍO NEGRO", "Río Negro", "Sarandi",
                   "US", "US ", "Unassigned", "Unknown", "Uruguay",
                   "california", "europe", "florida", "france", "orange",
                   "río negro", "us">>
    IN  IF v = None THEN 0
        ELSE CHOOSE k \in 1..Len(order) : order[k] = v[1]

\* the values of a joined name over the rows I, in the order in which the
\* loop of lines 178-240 meets them first: the order of the rows
NamesIn(I, level) ==
    LET RECURSIVE Ascending(_)
        Ascending(S) ==
            IF S = {} THEN <<>>
            ELSE LET m == CHOOSE x \in S :
                            \A y \in S : SqlRank(x) <= SqlRank(y)
                 IN  <<m>> \o Ascending(S \ {m})
    IN  Ascending({Joined(data_point[i])[level] : i \in I})

\* the rows of I whose joined name at the level is name
Under(I, level, name) == {i \in I : Joined(data_point[i])[level] = name}

\* line 228: `if country_name == "US" and county_name is not None`
TakesCountyNode(country_name, county_name) ==
    country_name = Some("US") /\ county_name # None

\* the tree the loop folds the grouped rows into (lines 174-245): a node is
\* appended to the detail list of its parent when its name is first met
StateNode(I, co, st, eff) ==
    LET cys == SelectSeq(NamesIn(I, "county_name"),
                         LAMBDA y : TakesCountyNode(co, y))
    IN  make_node(st, I,
            [k \in 1..Len(cys) |->
                make_node(cys[k], Under(I, "county_name", cys[k]), <<>>, eff)],
            eff)
CountryNode(I, co, eff) ==
    LET sts == SelectSeq(NamesIn(I, "state_name"), LAMBDA y : y # None)
    IN  make_node(co, I,
            [k \in 1..Len(sts) |->
                StateNode(Under(I, "state_name", sts[k]), co, sts[k], eff)],
            eff)
ContinentNode(I, cn, eff) ==
    LET cos == SelectSeq(NamesIn(I, "country_name"), LAMBDA y : y # None)
    IN  make_node(cn, I,
            [k \in 1..Len(cos) |->
                CountryNode(Under(I, "country_name", cos[k]), cos[k], eff)],
            eff)
Tree(I, eff) ==
    LET cns == NamesIn(I, "continent_name")
    IN  make_node(Some("Global"), I,
            [k \in 1..Len(cns) |->
                ContinentNode(Under(I, "continent_name", cns[k]), cns[k], eff)],
            eff)

\* the detail lists of the nodes of a list, one after the other
RECURSIVE Details(_)
Details(nodes) ==
    IF nodes = <<>> THEN <<>>
    ELSE Head(nodes).detail \o Details(Tail(nodes))

\* the nodes one, two, three and four levels below root, in the order of
\* the nested loops of drill_down
Level1(root) == root.detail
Level2(root) == Details(Level1(root))
Level3(root) == Details(Level2(root))
Level4(root) == Details(Level3(root))

\* the nodes of a level whose place equals the filter, case-insensitively,
\* in the order of the level
Hits(nodes, param) ==
    SelectSeq(nodes,
        LAMBDA n : n.place # None /\ Lower(n.place[1]) = Lower(param[1]))

\* drill_down(root), lines 248-273: county, then state, then country, then
\* continent; the first node found at the first level that has one
drill_down(root, q) ==
    IF Truthy(q.county) /\ Hits(Level4(root), q.county) # <<>>
    THEN Head(Hits(Level4(root), q.county))
    ELSE IF Truthy(q.state) /\ Hits(Level3(root), q.state) # <<>>
    THEN Head(Hits(Level3(root), q.state))
    ELSE IF Truthy(q.country) /\ Hits(Level2(root), q.country) # <<>>
    THEN Head(Hits(Level2(root), q.country))
    ELSE IF Truthy(q.continent) /\ Hits(Level1(root), q.continent) # <<>>
    THEN Head(Hits(Level1(root), q.continent))
    ELSE root

\* the columns of data_point (init_schema, lines 71-85)
DataPointColumns ==
    {"id", "date", "us_county_id", "us_county_name", "province", "country",
     "confirmed", "deaths", "active", "incident_rate",
     "case_fatality_ratio", "lat", "lon"}

\* the columns of data_point that the statement of lines 144-159 names
SelectColumns ==
    {"date", "country", "province", "us_county_name", "daily_confirmed",
     "daily_deaths"}

\* db.execute(query, params), line 161: the statement names a column the
\* table does not have and SQLite raises OperationalError (no such column)
NoSuchColumn == SelectColumns \ DataPointColumns # {}

\* an exception leaves the handler: the caller receives status 500
Raised(exc) == [status |-> 500, raised |-> exc]

\* lines 122-275 of get_data on the resolved range eff: the statement, the
\* fold of its rows and drill_down
Query(q, eff) ==
    IF NoSuchColumn THEN Raised("OperationalError")
    ELSE [status |-> 200,
          body |-> drill_down(Tree(Selected(q, eff), eff), q)]

\* get_data from the request to the answer
get_data(q) ==
    LET eff == EffDates(q)
    IN  IF ~eff.ok THEN Raised("TypeError") ELSE Query(q, eff)

\* the rows of tbl whose parent is id, in the order of the table
Children(tbl, id) == SelectSeq(tbl, LAMBDA r : r.parent = id)

\* the json_object of a state row of country co (lines 33-58): with its
\* position and the json_objects of its counties when the country is
\* named US
StateJson(s, co) ==
    IF co.name = "US"
    THEN [id |-> s.id, name |-> s.name, lat |-> s.lat, lon |-> s.lon,
          counties |-> [i \in 1..Len(Children(county, s.id)) |->
                          LET k == Children(county, s.id)[i]
                          IN  [id |-> k.id, name |-> k.name, lat |-> k.lat,
                               lon |-> k.lon]]]
    ELSE [id |-> s.id, name |-> s.name]

\* the json_object of a country row (lines 26-63)
CountryJson(co) ==
    [id |-> co.id, name |-> co.name, lat |-> co.lat, lon |-> co.lon,
     states |-> [i \in 1..Len(Children(state, co.id)) |->
                    StateJson(Children(state, co.id)[i], co)]]

\* the json_object of a continent row (lines 19-68)
ContinentJson(c) ==
    [id |-> c.id, name |-> c.name, lat |-> c.lat, lon |-> c.lon,
     countries |-> [i \in 1..Len(Children(country, c.id)) |->
                       CountryJson(Children(country, c.id)[i])]]

\* filter_data, lines 16-77: the hierarchy tables as one nested document
filter_data ==
    [status |-> 200,
     body |-> [continents |-> [i \in 1..Len(continent) |->
                                  ContinentJson(continent[i])]]]

\* get_dates, lines 82-88: SELECT DISTINCT date ... ORDER BY date
RECURSIVE DatesAsc(_)
DatesAsc(S) ==
    IF S = {} THEN <<>>
    ELSE LET m == CHOOSE x \in S : \A y \in S : IsoLe(x, y)
         IN  <<m>> \o DatesAsc(S \ {m})
get_dates ==
    [status |-> 200, body |-> [dates |-> DatesAsc(DistinctDates(data_point))]]

----------------------------------------------------------------------------
(* Requests against the store that init_db builds from the files of the    *)
(* first days of the range.  The server answers requests once init_db has  *)
(* returned (main.py, lifespan).                                           *)

\* last day offset of the days that hold rows and that requests name
MaxQueryDay == 1

QueryDays == RangeDays(MaxQueryDay)

\* the contents of a snapshot file of those days
QueryFileChoices ==
    {None,
     Some(<<Orange_CA("100"), France>>),
     Some(<<Orange_CA("150"), Orange_FL>>),
     Some(<<Florida_UY, UnknownProv>>)}

\* the place filters of a request
PlaceFilter(cn, co, st, cy) ==
    [continent |-> cn, country |-> co, state |-> st, county |-> cy]
PlaceFilterChoices ==
    {PlaceFilter(None, None, None, None),
     PlaceFilter(Some("europe"), None, None, None),
     PlaceFilter(None, Some("US"), None, None),
     PlaceFilter(None, Some("us"), Some("California"), None),
     PlaceFilter(None, None, Some("florida"), None),
     PlaceFilter(None, None, None, Some("orange")),
     PlaceFilter(None, Some("France"), None, Some("Orange")),
     PlaceFilter(Some("Americas"), Some("US"), Some("California"),
                 Some("Orange"))}

\* the date parameters of a request: an exact date, or any of start and
\* end, or an exact date together with a start and an end
DateFilterChoices ==
    {[start_date |-> None, end_date |-> None, date_ |-> Some(d)] :
        d \in QueryDays}
    \cup {[start_date |-> a, end_date |-> b, date_ |-> None] :
            a, b \in {None} \cup {Some(d) : d \in QueryDays}}
    \cup {[start_date |-> Some(start_date),
           end_date |-> Some(DatePlus(start_date, MaxQueryDay)),
           date_ |-> Some(DatePlus(start_date, MaxQueryDay))]}

\* a request of GET /filter/data: date parameters and place filters
Request(df, pf) ==
    [path |-> "/filter/data", start_date |-> df.start_date,
     end_date |-> df.end_date, date_ |-> df.date_,
     continent |-> pf.continent, country |-> pf.country,
     state |-> pf.state, county |-> pf.county]
Requests ==
    {Request(df, pf) : df \in DateFilterChoices, pf \in PlaceFilterChoices}

\* GET /filter/data, lines 111-120: the handler resolves its date range,
\* reading MIN(date) and MAX(date) when a date is missing; on an empty
\* table date.fromisoformat(None) raises TypeError
GetData ==
    /\ pc = "idle" /\ outcome = "ok"
    /\ request = None
    /\ \E q \in Requests :
        /\ request' = Some(q)
        /\ IF EffDates(q).ok
           THEN scope' = Some(EffDates(q)) /\ response' = None
           ELSE scope' = None /\ response' = Some(Raised("TypeError"))
    /\ UNCHANGED <<main_vars,
                   files, end_date, dup_seen, data_point, dp_committed, hier,
                   pc, fill_locals, place_locals, outcome, changed,
                   rows_before, prev_done, pre_vars>>

\* GET /filter/data, lines 122-275: the handler runs its statement on the
\* resolved range and answers
GetDataQuery ==
    /\ request # None /\ scope # None /\ response = None
    /\ response' = Some(Query(request[1], scope[1]))
    /\ UNCHANGED <<main_vars,
                   files, end_date, dup_seen, data_point, dp_committed, hier,
                   pc, fill_locals, place_locals, outcome, changed,
                   rows_before, prev_done, pre_vars, request, scope>>

\* GET /filter/places
FilterData ==
    /\ pc = "idle" /\ outcome = "ok"
    /\ request = None
    /\ request' = Some([path |-> "/filter/places"])
    /\ response' = Some(filter_data)
    /\ UNCHANGED <<main_vars,
                   files, end_date, dup_seen, data_point, dp_committed, hier,
                   pc, fill_locals, place_locals, outcome, changed,
                   rows_before, prev_done, pre_vars, scope>>

\* GET /filter/dates
GetDates ==
    /\ pc = "idle" /\ outcome = "ok"
    /\ request = None
    /\ request' = Some([path |-> "/filter/dates"])
    /\ response' = Some(get_dates)
    /\ UNCHANGED <<main_vars,
                   files, end_date, dup_seen, data_point, dp_committed, hier,
                   pc, fill_locals, place_locals, outcome, changed,
                   rows_before, prev_done, pre_vars, scope>>

\* the response has been sent: the handler holds nothing of the request
Reply ==
    /\ request # None /\ response # None
    /\ request' = None
    /\ scope' = None
    /\ response' = None
    /\ UNCHANGED <<main_vars,
                   files, end_date, dup_seen, data_point, dp_committed, hier,
                   pc, fill_locals, place_locals, outcome, changed,
                   rows_before, prev_done, pre_vars>>

\* a new database and the files of the days 0..MaxQueryDay
InitQuery ==
    /\ InitStore
    /\ end_date = DatePlus(start_date, MaxQueryDay)
    /\ files \in [FileNames(MaxQueryDay) -> QueryFileChoices]
    /\ dup_seen = FALSE

\* the server process starts once: init_db, then the requests
NextQuery ==
    \/ outcome = "none" /\ StartFill
    \/ SkipMissing
    \/ InsertDay
    \/ FinalCommit
    \/ PlaceStart
    \/ \E t \in rows : PlaceRow(t)
    \/ PlaceCommit
    \/ GetData
    \/ GetDataQuery
    \/ FilterData
    \/ GetDates
    \/ Reply

SpecQuery == InitQuery /\ [][NextQuery]_vars

----------------------------------------------------------------------------
(* Properties of get_data *)

\* the day before d
PrevDay(d) ==
    IF d[3] > 1 THEN <<d[1], d[2], d[3] - 1>>
    ELSE IF d[2] > 1 THEN <<d[1], d[2] - 1, DaysInMonth(d[1], d[2] - 1)>>
    ELSE <<d[1] - 1, 12, 31>>

\* request q with its date parameters replaced by the exact date d
OnDate(q, d) ==
    [q EXCEPT !.start_date = None, !.end_date = None, !.date_ = Some(d)]

\* request q with its date parameters replaced by the range a..b
OnRange(q, a, b) ==
    [q EXCEPT !.start_date = Some(a), !.end_date = Some(b), !.date_ = None]

Clamp(n) == IF n < 0 THEN 0 ELSE n

\* a request of GET /filter/data has been answered
AnsweredData == response # None /\ request[1].path = "/filter/data"

\* a request with start and end, start <= end, has been answered
AnsweredRange ==
    /\ AnsweredData
    /\ request[1].date_ = None
    /\ request[1].start_date # None /\ request[1].end_date # None
    /\ DateLe(request[1].start_date[1], request[1].end_date[1])

\* C15: query(start=D1, end=D2), query(date=D2) and query(date=D1 - 1 day)
\* return totals, and each total of the first is the total of the second
\* minus the total of the third, clamped at zero
C15_RangeIsDifference ==
    AnsweredRange =>
        LET q == request[1]
            last == get_data(OnDate(q, q.end_date[1]))
            before == get_data(OnDate(q, PrevDay(q.start_date[1])))
        IN  /\ response[1].status = 200
            /\ last.status = 200 /\ before.status = 200
            /\ response[1].body.confirmed
                = Clamp(last.body.confirmed - before.body.confirmed)
            /\ response[1].body.deaths
                = Clamp(last.body.deaths - before.body.deaths)

\* a request without any date parameter has been answered from a store
\* that holds rows
AnsweredUndated ==
    /\ AnsweredData
    /\ request[1].date_ = None
    /\ request[1].start_date = None /\ request[1].end_date = None
    /\ data_point # <<>>

\* C16: a query with no date filter returns totals, the totals of the
\* query whose exact date is the latest date of the store
C16_DefaultIsLatest ==
    AnsweredUndated =>
        LET latest == get_data(OnDate(request[1],
                                      FromIso(MaxDate(data_point)[1])))
        IN  /\ response[1].status = 200
            /\ latest.status = 200
            /\ response[1].body.confirmed = latest.body.confirmed
            /\ response[1].body.deaths = latest.body.deaths

\* a request with a start date after its end date has been answered
AnsweredInverted ==
    /\ AnsweredData
    /\ request[1].date_ = None
    /\ request[1].start_date # None /\ request[1].end_date # None
    /\ ~DateLe(request[1].start_date[1], request[1].end_date[1])

\* C18: a request whose start date is after its end date is answered with
\* the invalid-request outcome: neither a result record nor the failure of
\* the server
C18_InvertedRangeRejected ==
    AnsweredInverted => response[1].status \notin {200, 500}

\* the answered request matches no row of the store
AnsweredNoMatch ==
    /\ AnsweredData
    /\ \/ data_point = <<>>
       \/ /\ EffDates(request[1]).ok
          /\ Selected(request[1], EffDates(request[1])) = {}

\* C19: a request that matches no row, the empty store included, is
\* answered with a zero-valued result record and not with a failure
C19_NoMatchIsZeroResult ==
    AnsweredNoMatch =>
        /\ response[1].status = 200
        /\ response[1].body.confirmed = 0
        /\ response[1].body.deaths = 0
        /\ response[1].body.detail = <<>>

\* the level of the most specific place filter of q: 4 county, 3 state,
\* 2 country, 1 continent, 0 when no place filter is supplied
MostSpecific(q) ==
    IF Truthy(q.county) THEN 4
    ELSE IF Truthy(q.state) THEN 3
    ELSE IF Truthy(q.country) THEN 2
    ELSE IF Truthy(q.continent) THEN 1
    ELSE 0

\* the place filter of q at level k
FilterAt(q, k) == <<q.continent, q.country, q.state, q.county>>[k]

\* the levels at which q supplies a place filter
SuppliedLevels(q) == {k \in 1..4 : Truthy(FilterAt(q, k))}

\* the answered request has no place filter, or place filters that some
\* row of its date range satisfies together
AnsweredConsistent ==
    /\ AnsweredData
    /\ EffDates(request[1]).ok
    /\ \/ MostSpecific(request[1]) = 0
       \/ Selected(request[1], EffDates(request[1])) # {}

\* C20: a request with consistent place filters is answered with the node
\* of its most specific filter, and a request without place filter with
\* the Global node
C20_MostSpecificNode ==
    AnsweredConsistent =>
        LET q == request[1]
            k == MostSpecific(q)
        IN  /\ response[1].status = 200
            /\ IF k = 0 THEN response[1].body.place = Some("Global")
               ELSE Lower(response[1].body.place[1])
                        = Lower(FilterAt(q, k)[1])

\* the rows of the date range, whatever the place filters
RowsInRange(eff) ==
    {i \in 1..Len(data_point) : InRange(data_point[i].date, eff)}

\* the filter of q at level k names a place of a row of the date range (at
\* the county level: of a row of the country US)
Resolves(q, eff, k) ==
    \E i \in RowsInRange(eff) :
        LET j == Joined(data_point[i])
            name == <<j.continent_name, j.country_name, j.state_name,
                      j.county_name>>[k]
        IN  /\ name # None
            /\ Lower(name[1]) = Lower(FilterAt(q, k)[1])
            /\ k = 4 => j.country_name = Some("US")

\* the place filters of the answered request are inconsistent: no row of
\* the date range satisfies all of them together, although one of them
\* names a place of the date range
AnsweredInconsistent ==
    /\ AnsweredData
    /\ EffDates(request[1]).ok
    /\ Cardinality(SuppliedLevels(request[1])) >= 2
    /\ Selected(request[1], EffDates(request[1])) = {}
    /\ \E k \in SuppliedLevels(request[1]) :
            Resolves(request[1], EffDates(request[1]), k)

\* C21: with inconsistent place filters the answer is no error: it is the
\* node of the most specific supplied filter that resolves in the date
\* range
C21_BestResolvableAncestor ==
    AnsweredInconsistent =>
        LET q == request[1]
            eff == EffDates(q)
            best == CHOOSE k \in SuppliedLevels(q) :
                        /\ Resolves(q, eff, k)
                        /\ \A j \in SuppliedLevels(q) :
                                Resolves(q, eff, j) => j <= k
        IN  /\ response[1].status = 200
            /\ Lower(response[1].body.place[1]) = Lower(FilterAt(q, best)[1])

\* a request filtered by a country and one of its states only has been
\* answered, the state having rows in the date range
AnsweredCountryState ==
    /\ AnsweredData
    /\ Truthy(request[1].country) /\ Truthy(request[1].state)
    /\ ~Truthy(request[1].county) /\ ~Truthy(request[1].continent)
    /\ EffDates(request[1]).ok
    /\ Selected(request[1], EffDates(request[1])) # {}

\* the sum of a total over a list of nodes
RECURSIVE SumNodes(_, _)
SumNodes(N, col) ==
    IF N = <<>> THEN 0
    ELSE Head(N)[col] + SumNodes(Tail(N), col)

\* C22: a country-and-state query returns totals, the sums of the totals
\* of the county nodes under that state
C22_StateIsSumOfCounties ==
    AnsweredCountryState =>
        /\ response[1].status = 200
        /\ response[1].body.confirmed
            = SumNodes(response[1].body.detail, "confirmed")
        /\ response[1].body.deaths
            = SumNodes(response[1].body.detail, "deaths")

\* a place filter in lower case, as str.lower() gives it
LowerOf(f) == IF Truthy(f) THEN Some(Lower(f[1])) ELSE f

\* request q with every place filter in lower case: a request that
\* differs from q in letter case only
LowerCased(q) ==
    [q EXCEPT !.continent = LowerOf(q.continent),
              !.country = LowerOf(q.country),
              !.state = LowerOf(q.state),
              !.county = LowerOf(q.county)]

\* a request with a place filter and a date range has been answered
AnsweredFiltered ==
    /\ AnsweredData
    /\ EffDates(request[1]).ok
    /\ SuppliedLevels(request[1]) # {}

\* C23: a request and the request that differs from it in the letter case
\* of its place filters only are answered with the same node and totals,
\* and a node that a filter selected has the filter's name up to letter case
C23_CaseInsensitiveExact ==
    AnsweredFiltered =>
        /\ response[1].status = 200
        /\ response[1] = get_data(LowerCased(request[1]))
        /\ response[1].body.place # Some("Global") =>
            \E k \in SuppliedLevels(request[1]) :
                Lower(response[1].body.place[1])
                    = Lower(FilterAt(request[1], k)[1])

\* the date scope the docstring of get_data gives request q: date= for
\* both when supplied, else start and end, a missing one being the
\* earliest or the latest date of the store
DocStart(q) ==
    IF q.date_ # None THEN q.date_[1]
    ELSE IF q.start_date # None THEN q.start_date[1]
    ELSE FromIso(MinDate(data_point)[1])
DocEnd(q) ==
    IF q.date_ # None THEN q.date_[1]
    ELSE IF q.end_date # None THEN q.end_date[1]
    ELSE FromIso(MaxDate(data_point)[1])

\* a request has been answered whose date scope the docstring defines:
\* every date it leaves open can be taken from the store
AnsweredScoped ==
    /\ AnsweredData
    /\ \/ request[1].date_ # None
       \/ request[1].start_date # None /\ request[1].end_date # None
       \/ data_point # <<>>

\* C25: the answer is a node that carries the start and end the docstring
\* gives the request, and it is the answer of the request with that start
\* and end spelled out
C25_ScopeAsDocumented ==
    AnsweredScoped =>
        /\ response[1].status = 200
        /\ response[1].body.date_range
            = [start |-> IsoFormat(DocStart(request[1])),
               end |-> IsoFormat(DocEnd(request[1]))]
        /\ response[1] = get_data(OnRange(request[1], DocStart(request[1]),
                                          DocEnd(request[1])))

----------------------------------------------------------------------------
(* fill_db alone, started again after a kill, with every step of its loop  *)
(* taken as long as the process lives                                      *)

\* the files of the short range: missing, one row, or a row that the
\* NOT NULL constraint rejects
LoopFileChoices == {None, Some(<<France>>), Some(<<NoCountry>>)}

InitLoop ==
    /\ InitStore
    /\ \/ /\ end_date = DatePlus(start_date, SmallEnd)
          /\ files \in [FileNames(SmallEnd) -> LoopFileChoices]
          /\ dup_seen = FALSE
       \/ InitLong

\* the steps of the while loop of fill_db (lines 106-170) and the commit
\* that ends it
LoopStep ==
    \/ SkipExisting
    \/ SkipMissing
    \/ InsertDay
    \/ InsertRaises
    \/ BatchCommit
    \/ FinalCommit

NextLoop == StartFill \/ LoopStep \/ Kill

SpecLoop == InitLoop /\ [][NextLoop]_vars /\ WF_vars(LoopStep)

\* fill_db is in its while loop
InLoop == pc \in {"fill_loop", "fill_commit"}

\* C26: the loop starts on the start date; every iteration, whichever of
\* its three branches it takes, moves current to the next day; current
\* never leaves start date .. end date + 1 day; the loop is left normally
\* only on the day after the end date; and a loop that has begun is left
C26_LoopTerminates ==
    /\ [][(pc = "idle" /\ pc' = "fill_loop") => current' = start_date]_vars
    /\ [][(pc = "fill_loop" /\ pc' = "fill_loop") =>
            (DateLe(current, end_date) /\ current' = NextDay(current))]_vars
    /\ [][(pc = "fill_loop" /\ pc' = "fill_commit") =>
            (DateLe(current, end_date) /\ current' = current)]_vars
    /\ [][(pc = "fill_commit" /\ pc' = "fill_loop") =>
            current' = NextDay(current)]_vars
    /\ [][(pc = "fill_loop" /\ pc' = "fill_done") =>
            current = NextDay(end_date)]_vars
    /\ [](InLoop => (DateLe(start_date, current)
                        /\ DateLe(current, NextDay(end_date))))
    /\ (InLoop ~> ~InLoop)

\* C26 witness: a run over a store that already held the first day has
\* skipped that day, skipped a day without a file and returned
C26_Witness ==
    /\ pc = "fill_done"
    /\ current = NextDay(end_date)
    /\ existing_dates # {}
    /\ \E d \in RangeDays(SmallEnd) : ~Exists(d)
    /\ end_date = DatePlus(start_date, SmallEnd)

\* C26 second witness: a run over the long range has inserted every day
\* and returned
C26_WitnessLong ==
    /\ pc = "fill_done"
    /\ end_date = DatePlus(start_date, LongEnd)
    /\ batch_size = LongEnd + 1

----------------------------------------------------------------------------
(* The hierarchy holds only places of data_point *)

\* C28: at every moment of a build that starts from empty hierarchy
\* tables, every country row has the country of a data_point row, every
\* state row has the province of a data_point row and is not "Unknown",
\* and every county row has the us_county_name of a data_point row whose
\* country is US
C28_NoInventedPlace ==
    /\ \A i \in 1..Len(country) :
        \E k \in 1..Len(data_point) :
            data_point[k].country = Some(country[i].name)
    /\ \A i \in 1..Len(state) :
        /\ state[i].name # "Unknown"
        /\ \E k \in 1..Len(data_point) :
            data_point[k].province = Some(state[i].name)
    /\ \A i \in 1..Len(county) :
        \E k \in 1..Len(data_point) :
            /\ data_point[k].us_county_name = Some(county[i].name)
            /\ data_point[k].country = Some("US")

\* C28 witness: a build has returned with a county row, over rows that
\* hold a province "Unknown" and a county of a country other than US
C28_Witness ==
    /\ BuildDone
    /\ Len(county) = 1 /\ Len(state) = 1 /\ Len(country) = 2
    /\ \E k \in 1..Len(data_point) : data_point[k].province = Some("Unknown")
    /\ \E k \in 1..Len(data_point) :
        /\ data_point[k].us_county_name = Some("Sarandi")
        /\ data_point[k].country = Some("Uruguay")

-----------------------------------------------------------------------------
(* preprocess_data of app/data.py: the files of the range folded, day by
   day, into one list of rows that carry the day's totals and the change
   since the last processed file *)

MaxPreDay == 2

\* str.strip() on the names of the model
Strip(s) ==
    CASE s = " " -> ""
      [] s = "US " -> "US"
      [] OTHER -> s

\* row.get(column, ""): the cell of a column, "" when the file has no such
\* column
RowGet(v) == IF v = None THEN "" ELSE v[1]

\* row.get(column, "").strip() or None
StripOrNone(v) == IF Strip(RowGet(v)) = "" THEN None ELSE Some(Strip(RowGet(v)))

\* the days from start_date to d
RECURSIVE DayIndex(_)
DayIndex(d) == IF d = start_date THEN 0 ELSE 1 + DayIndex(PrevDay(d))

\* int(date.timestamp()) of midnight of day d, the clock of the process on
\* UTC
Timestamp(d) == 1609459200 + 86400 * DayIndex(d)

\* key = (country, state, county) of a row of all_data
KeyOf(r) == <<r.country, r.state, r.county>>

\* prev_day_map.get(key): the rows of a map under the key, at most one
MapGet(map, key) == {r \in map : KeyOf(r) = key}

\* current_day_map[key] = daily_row: the row replaces the one of its key
MapPut(map, row) == {r \in map : KeyOf(r) # KeyOf(row)} \cup {row}

\* total - (prev[total] if prev else 0)
Daily(total, prev, col) ==
    IF prev = {} THEN total ELSE total - (CHOOSE r \in prev : TRUE)[col]

\* lines 93-123: the daily_row of one DictReader row of the file of day d
daily_row(row, d, prev_map) ==
    LET ctry == Strip(RowGet(row.Country_Region))
        st == StripOrNone(row.Province_State)
        cnty == StripOrNone(row.Admin2)
        confirmed == IntOrZero(row.Confirmed)
        deaths == IntOrZero(row.Deaths)
        prev == MapGet(prev_map, <<ctry, st, cnty>>)
    IN [date |-> Timestamp(d),
        country |-> ctry,
        state |-> st,
        county |-> cnty,
        lat |-> FloatOrZero(row.Lat)[1],
        long |-> FloatOrZero(row.Long_)[1],
        total_confirmed |-> confirmed,
        total_deaths |-> deaths,
        daily_confirmed |-> Daily(confirmed, prev, "total_confirmed"),
        daily_deaths |-> Daily(deaths, prev, "total_deaths")]

\* lines 92-126: the rows of a file from the i-th on, read in order; acc is
\* current_day_map and the rows appended to all_data so far
RECURSIVE ReadFile(_, _, _, _, _)
ReadFile(rws, i, d, prev_map, acc) ==
    IF i > Len(rws) THEN acc
    ELSE LET r == daily_row(rws[i], d, prev_map)
         IN ReadFile(rws, i + 1, d, prev_map,
                     [current_day_map |-> MapPut(acc.current_day_map, r),
                      appended |-> Append(acc.appended, r)])

\* the strings of the model in the order of Python's str comparison, which
\* is the order of the code points: capital letters before small ones
StrOrder ==
    <<"", "California", "France", "Orange", "US",
      "california", "france", "orange", "us">>

StrRank(s) == CHOOSE i \in 1..Len(StrOrder) : StrOrder[i] = s

\* a < b on tuples of numbers, as Python compares tuples
TupleLt(a, b) ==
    \E i \in 1..Len(a) : a[i] < b[i] /\ \A j \in 1..(i - 1) : a[j] = b[j]

\* the pair <<k, x>> put into a list of pairs sorted by key, behind every
\* pair whose key is not greater: list.sort is stable
RECURSIVE InsertSorted(_, _, _)
InsertSorted(s, k, x) ==
    IF s = <<>> THEN <<<<k, x>>>>
    ELSE IF TupleLt(k, Head(s)[1]) THEN <<<<k, x>>>> \o s
    ELSE <<Head(s)>> \o InsertSorted(Tail(s), k, x)

RECURSIVE SortPairs(_, _)
SortPairs(s, acc) ==
    IF s = <<>> THEN acc
    ELSE SortPairs(Tail(s), InsertSorted(acc, Head(s)[1], Head(s)[2]))

\* list.sort(key=...): the list in ascending order of the keys of its rows,
\* keys[i] being the key of seq[i]; rows of equal key keep their order
Sorted(seq, keys) ==
    LET pairs == [i \in 1..Len(seq) |-> <<keys[i], seq[i]>>]
        out == SortPairs(pairs, <<>>)
    IN [i \in 1..Len(seq) |-> out[i][2]]

\* lines 134-139: (date, country, state or "", county or "")
OutputKey(r) ==
    <<r.date, StrRank(r.country),
      StrRank(IF r.state = None THEN "" ELSE r.state[1]),
      StrRank(IF r.county = None THEN "" ELSE r.county[1])>>

\* lines 74-77
PreStart ==
    /\ pre_pc = "none"
    /\ pre_pc' = "loop"
    /\ pre_date' = start_date
    /\ all_data' = <<>>
    /\ prev_day_map' = {}
    /\ UNCHANGED <<main_vars,
                   files, end_date, dup_seen, request, scope, response, data,
                   filtered, data_point, dp_committed, hier, pc, fill_locals,
                   place_locals, outcome, changed, rows_before, prev_done>>

\* a skipped day that forgets the totals of the last file
PreSkipMissing_clearsMap ==
    /\ pre_pc = "loop"
    /\ DateLe(pre_date, end_date)
    /\ ~Exists(pre_date)
    /\ pre_date' = NextDay(pre_date)
    /\ prev_day_map' = {}
    /\ UNCHANGED <<main_vars,
                   files, end_date, dup_seen, request, scope, response, pre_pc,
                   all_data, data, filtered, data_point, dp_committed, hier,
                   pc, fill_locals, place_locals, outcome, changed,
                   rows_before, prev_done>>

\* lines 79-83: a day without a file is skipped and prev_day_map stays
PreSkipMissing ==
    /\ pre_pc = "loop"
    /\ DateLe(pre_date, end_date)
    /\ ~Exists(pre_date)
    /\ pre_date' = NextDay(pre_date)
    /\ UNCHANGED <<main_vars,
                   files, end_date, dup_seen, request, scope, response, pre_pc,
                   all_data, prev_day_map, data, filtered, data_point,
                   dp_committed, hier, pc, fill_locals, place_locals, outcome,
                   changed, rows_before, prev_done>>

\* lines 79-128: the file of the day is read and its map becomes
\* prev_day_map
PreReadDay ==
    /\ pre_pc = "loop"
    /\ DateLe(pre_date, end_date)
    /\ Exists(pre_date)
    /\ LET read == ReadFile(Reader(pre_date), 1, pre_date, prev_day_map,
                            [current_day_map |-> {}, appended |-> <<>>])
       IN /\ all_data' = all_data \o read.appended
          /\ prev_day_map' = read.current_day_map
    /\ pre_date' = NextDay(pre_date)
    /\ UNCHANGED <<main_vars,
                   files, end_date, dup_seen, request, scope, response, pre_pc,
                   data, filtered, data_point, dp_committed, hier, pc,
                   fill_locals, place_locals, outcome, changed, rows_before,
                   prev_done>>

\* lines 130-149: the list is sorted and returned
PreReturn ==
    /\ pre_pc = "loop"
    /\ ~DateLe(pre_date, end_date)
    /\ pre_pc' = "done"
    /\ all_data' = IF all_data = <<>> THEN <<>>
                    ELSE Sorted(all_data, [i \in 1..Len(all_data) |->
                                              OutputKey(all_data[i])])
    /\ UNCHANGED <<main_vars,
                   files, end_date, dup_seen, request, scope, response, pre_date,
                   prev_day_map, data, filtered, data_point, dp_committed,
                   hier, pc, fill_locals, place_locals, outcome, changed,
                   rows_before, prev_done>>

-----------------------------------------------------------------------------
(* GET /data/{key}/{target} of routes/data.py: bsearch on the module-level
   list *)

\* the files a range of preprocess_data may find: none, two places, one
\* place whose country carries a blank, and a file that holds a place twice
PreFileChoices ==
    {None,
     Some(<<Orange_CA("100"),
            RawRow(Some(""), Some(""), Some(" "), Some("France"), Some("5"),
                   Some("0"))>>),
     Some(<<RawRow(Some("06059"), Some("Orange"), Some("California"),
                   Some("US "), Some("150"), Some("5"))>>),
     Some(<<Orange_CA("100"), Orange_CA("150")>>)}

\* the keys and targets asked for: PreciseParams has turned the target into
\* the type of the key's field
SearchChoices ==
    {<<"country", "us">>, <<"country", "France">>,
     <<"total_confirmed", 100>>, <<"daily_confirmed", 50>>,
     <<"total_deaths", 5>>, <<"lat", 0>>, <<"state", "California">>}

\* DailyData.__annotations__[key] is type(target): the annotation of the
\* key is a plain int, float or str, the type PreciseParams has given the
\* target; for state and county it is Optional[str], which is not str
TypeMatches(key) ==
    key \in {"date", "country", "lat", "long", "total_confirmed",
             "total_deaths", "daily_confirmed", "daily_deaths"}

\* _normalize: a str stripped and in lower case, a number as it is
normalize(key, v) == IF key = "country" THEN Lower(Strip(v)) ELSE v

\* a value as a number that orders as Python orders the values
Ord(key, v) == IF key = "country" THEN StrRank(v) ELSE v

\* bisect_left(a, x, lo, hi) on a 0-based list of numbers
RECURSIVE bisect_left(_, _, _, _)
bisect_left(a, x, lo, hi) ==
    IF lo < hi
    THEN LET mid == (lo + hi) \div 2
         IN IF a[mid + 1] < x THEN bisect_left(a, x, mid + 1, hi)
            ELSE bisect_left(a, x, lo, mid)
    ELSE lo

\* bisect_right(a, x, lo, hi)
RECURSIVE bisect_right(_, _, _, _)
bisect_right(a, x, lo, hi) ==
    IF lo < hi
    THEN LET mid == (lo + hi) \div 2
         IN IF x < a[mid + 1] THEN bisect_right(a, x, lo, mid)
            ELSE bisect_right(a, x, mid + 1, hi)
    ELSE lo

\* the key of data.sort(key=lambda x: x[key])
SortKeyOf(key, r) == <<Ord(key, r[key])>>

\* bsearch(data, key, target): the list it was given as the call leaves it,
\* and what the call returns or that it raised
bsearch(d, key, target) ==
    IF d = <<>> THEN [data |-> d, raised |-> FALSE, result |-> <<>>]
    ELSE IF ~TypeMatches(key) THEN [data |-> d, raised |-> TRUE, result |-> <<>>]
    ELSE LET sorted == Sorted(d, [i \in 1..Len(d) |-> SortKeyOf(key, d[i])])
             target_norm == Ord(key, normalize(key, target))
             values == [i \in 1..Len(sorted) |->
                           Ord(key, normalize(key, sorted[i][key]))]
             left == bisect_left(values, target_norm, 0, Len(values))
             right == bisect_right(values, target_norm, 0, Len(values))
         IN [data |-> sorted, raised |-> FALSE,
             result |-> SubSeq(sorted, left + 1, right)]

\* the list process_data() loads: the one preprocess_data returned
process_data == all_data

\* get_place_info: the list is loaded on the first request and searched
GetPlaceInfo(key, target) ==
    /\ pre_pc = "done"
    /\ LET loaded == IF data = None THEN process_data ELSE data[1]
           found == bsearch(loaded, key, target)
       IN /\ data' = Some(found.data)
          /\ filtered' = Some([key |-> key, target |-> target,
                               status |-> IF found.raised THEN 500 ELSE 200,
                               rows |-> found.result])
    /\ UNCHANGED <<main_vars,
                   files, end_date, dup_seen, request, scope, response, pre_pc,
                   pre_date, all_data, prev_day_map, data_point, dp_committed,
                   hier, pc, fill_locals, place_locals, outcome, changed,
                   rows_before, prev_done>>

InitPre ==
    /\ InitStore
    /\ end_date = DatePlus(start_date, MaxPreDay)
    /\ files \in [FileNames(MaxPreDay) -> PreFileChoices]
    /\ dup_seen = FALSE

NextPre ==
    \/ PreStart
    \/ PreSkipMissing
    \/ PreReadDay
    \/ PreReturn
    \/ \E s \in SearchChoices : GetPlaceInfo(s[1], s[2])

SpecPre == InitPre /\ [][NextPre]_vars

-----------------------------------------------------------------------------
(* Properties of preprocess_data *)

\* the days whose file preprocess_data has read
ProcessedDays ==
    {d \in RangeDays(MaxPreDay) :
        /\ DateLe(d, end_date)
        /\ Exists(d)
        /\ pre_pc # "none"
        /\ d # pre_date /\ DateLe(d, pre_date)}

\* the places of the rows of all_data in which key k is on day d
RowsOf(k, d) ==
    {i \in 1..Len(all_data) :
        all_data[i].date = Timestamp(d) /\ KeyOf(all_data[i]) = k}

\* the keys of all_data
KeysOfAll == {KeyOf(all_data[i]) : i \in 1..Len(all_data)}

\* the day of a row
DayOfRow(r) == CHOOSE d \in RangeDays(MaxPreDay) : Timestamp(d) = r.date

\* the processed days before day d
Before(d) == {p \in ProcessedDays : p # d /\ DateLe(p, d)}

\* the latest day of a set of days that is not empty
Latest(D) == CHOOSE d \in D : \A e \in D : DateLe(e, d)

\* the greatest of a set of numbers that is not empty
Greatest(S) == CHOOSE i \in S : \A j \in S : j <= i

\* what a row's daily value of column col is to be: its total less the total
\* of its key in the most recent processed file, the whole total when there
\* is no such file or the file has no such key
ExpectedDaily(r, col) ==
    LET days == Before(DayOfRow(r))
    IN IF days = {} \/ RowsOf(KeyOf(r), Latest(days)) = {} THEN r[col]
       ELSE r[col] - all_data[Greatest(RowsOf(KeyOf(r), Latest(days)))][col]

RECURSIVE SumDaily(_, _)
SumDaily(I, col) ==
    IF I = {} THEN 0
    ELSE LET i == CHOOSE j \in I : TRUE
         IN all_data[i][col] + SumDaily(I \ {i}, col)

\* the rows of key k on the processed days up to day D
RowsUpTo(k, D) ==
    {i \in 1..Len(all_data) :
        KeyOf(all_data[i]) = k /\ DateLe(DayOfRow(all_data[i]), D)}

\* key k is in every file processed up to day D, once in each
InEveryFile(k, D) ==
    \A p \in ProcessedDays : DateLe(p, D) => Cardinality(RowsOf(k, p)) = 1

\* C29: every row's daily_confirmed and daily_deaths is its total less the
\* total of the same key in the most recent processed file, or its total
\* when that file does not have the key; and for a key that every processed
\* file up to day D holds (once, files being deduplicated per day) the daily
\* values of its rows up to D add up to its total on day D, days without a
\* file lying between processed days or not
C29_DailyTelescopes ==
    /\ \A i \in 1..Len(all_data) :
          /\ all_data[i].daily_confirmed
                = ExpectedDaily(all_data[i], "total_confirmed")
          /\ all_data[i].daily_deaths
                = ExpectedDaily(all_data[i], "total_deaths")
    /\ \A k \in KeysOfAll : \A D \in ProcessedDays :
          InEveryFile(k, D) =>
              \A i \in RowsOf(k, D) :
                 /\ SumDaily(RowsUpTo(k, D), "daily_confirmed")
                       = all_data[i].total_confirmed
                 /\ SumDaily(RowsUpTo(k, D), "daily_deaths")
                       = all_data[i].total_deaths

\* Orange of California is at 100 on the first day and at 150 on the third,
\* the second day has no file, and the third day's row carries the 50 since
\* the first
C29_Witness ==
    /\ pre_pc = "done"
    /\ ~Exists(DatePlus(start_date, 1))
    /\ LET k == <<"US", Some("California"), Some("Orange")>>
       IN /\ InEveryFile(k, DatePlus(start_date, 2))
          /\ \E i \in RowsOf(k, start_date) :
                all_data[i].total_confirmed = 100
          /\ \E i \in RowsOf(k, DatePlus(start_date, 2)) :
                /\ all_data[i].total_confirmed = 150
                /\ all_data[i].daily_confirmed = 50

-----------------------------------------------------------------------------
(* Properties of get_place_info *)

\* C24: a request leaves the module-level list as it was loaded, and what
\* it returns is what the same request returns when it is the first one:
\* the result does not depend on the requests before it
C24_QueriesReadOnly ==
    filtered # None =>
        /\ data = Some(process_data)
        /\ filtered[1].rows
              = bsearch(process_data, filtered[1].key, filtered[1].target).result

============================================================================
